---- MODULE Spec2Model ----
(***************************************************************************)
(* arc-shopper: the x402 payment core.                                     *)
(*   - LocalFacilitator (src/src/facilitator/index.ts): verify / settle    *)
(*     over the nonce-keyed settlement store.  The file holds two versions *)
(*     of the class; they differ in the catch branch of settle.  The       *)
(*     variable "variant" says which one is running.                       *)
(*   - X402V2PaymentClient (src/unnamed/part_004): settlePayment and its   *)
(*     direct-settlement fallback.                                         *)
(*   - the x402 digital products handler (src/unnamed/part_003) and the    *)
(*     /api/gated/* routes of the server (src/src/server/index.ts).        *)
(*   - the receipts of delivered contents (src/unnamed/part_002).          *)
(*   - PolicyEngine (src/unnamed/part_006), TrustlessAgent.process         *)
(*     (src/unnamed/part_009) and ShoppingAgent.shop                       *)
(*     (src/src/commerce/marketplace.ts), and the treasury's spending      *)
(*     history and approval requests (src/unnamed/part_004).               *)
(*   - X402V2PaymentClient.executePayment under makePayment and under the  *)
(*     purchase of the shopping agent (src/src/commerce/coinbase.ts).      *)
(*   - the credit accounts of the stream handler (src/unnamed/part_003).   *)
(* Every await of the source is a step boundary: the handlers of different *)
(* requests interleave exactly there.                                      *)
(***************************************************************************)
EXTENDS Integers, Sequences, FiniteSets, TLC

VARIABLES
  variant,        \* which version of LocalFacilitator.settle runs (1 or 2)
  now,            \* Date.now(): seconds for payments, days for the policy
  settlements,    \* LocalFacilitator.settlements : Map<nonce, SettleResponse>
  calls,          \* the LocalFacilitator.settle calls in flight, by call slot
  ledger,         \* the chain: the sequence of submitted transactions
  clients,        \* the X402V2PaymentClient.settlePayment calls in flight
  reqs,           \* the requests of the x402 products handler in flight
  purchaseHistory,\* history.ts purchaseHistory : Map<userId, Purchase[]>
  served,         \* the responses of the /api/gated/* routes sent so far
  probe,          \* one payment claim on its way: created, signed, verified
  receiptProbe,   \* one receipt on its way: signed, changed, verified
  engine,         \* the PolicyEngine: its policy and its spending tracker
  policyProbe,    \* one checkPolicy / recordSpending exchange with the engine
  spendingHistory,\* TreasuryManager.spendingHistory
  runs,           \* the process and shop calls of the agents in flight
  creditBalances, \* part_003 creditBalances : Map<userId, CreditAccount>
  streamReqs,     \* the requests of the credits (stream) handler in flight
  usdc,           \* the USDC of the users' wallets on the chain, in 6-decimal units
  pendingApprovals,\* TreasuryManager.pendingApprovals
  approveResult   \* the last approveRequest call and what it returned

vars == <<variant, now, settlements, calls, ledger, clients, reqs,
          purchaseHistory, served, probe, receiptProbe, engine,
          policyProbe, spendingHistory, runs, creditBalances, streamReqs,
          usdc, pendingApprovals, approveResult>>

(***************************************************************************)
(* Bounds of the model                                                     *)
(***************************************************************************)
MaxCalls == 2      \* settle call slots of the facilitator (concurrent calls)
MaxTime == 1       \* the clock runs from 0 to MaxTime
MaxClients == 1    \* concurrent settlePayment calls of the client
MaxReqs == 2       \* requests of the products handler
MaxLedger == 1     \* transactions the payers submit in the products model
MaxRuns == 2       \* process and shop calls of the agents

Calls == 1..MaxCalls
Clients == 1..MaxClients
Runs == 1..MaxRuns
Nonces == {"n1", "n2"}

(***************************************************************************)
(* Program constants                                                       *)
(***************************************************************************)
FACILITATOR_VERSION == "2"
SUPPORTED_NETWORKS == {"eip155:5042002"}
chainId == 5042002
usdcAddress == "0x3600"
X402_VERSION == "2"
X402_SCHEME == "exact"
CAIP2_NETWORK == "eip155:5042002"

\* addresses; the hot wallet's address is mixed-case (EIP-55 checksum)
HotKey == "hotKey"
OtherKey == "otherKey"
HotAddress == "0xHoT"
OtherAddress == "0xOtHeR"
Garbage == "0xgarbage"
MERCHANT_ADDRESS == "0xdEaD"

\* the merchant wallet of receipt.ts, derived from MERCHANT_SECRET
MerchantKey == "merchantKey"
MerchantWallet == "0xMeRcH"

Address(key) ==
  IF key = HotKey THEN HotAddress
  ELSE IF key = MerchantKey THEN MerchantWallet
  ELSE OtherAddress

\* String.prototype.toLowerCase on the addresses of the model
toLowerCase(a) ==
  CASE a = "0xHoT" -> "0xhot"
    [] a = "0xOtHeR" -> "0xother"
    [] a = "0xdEaD" -> "0xdead"
    [] a = "0xA0b8" -> "0xa0b8"
    [] a = "0xMeRcH" -> "0xmerch"
    [] a = "0xBuYeR" -> "0xbuyer"
    [] OTHER -> a

(***************************************************************************)
(* EIP-712: domain, digest, signing and recovery                           *)
(***************************************************************************)
getDomain(chain, verifyingContract) ==
  [name |-> "x402", version |-> FACILITATOR_VERSION, chainId |-> chain,
   verifyingContract |-> verifyingContract]

\* a hash that leaves the recipient out
TypedDataHashMutNoRecipient(domain, value) ==
  <<domain.name, domain.version, domain.chainId,
    toLowerCase(domain.verifyingContract),
    value.version, value.scheme, value.networkId, toLowerCase(value.asset),
    value.amount, value.nonce, value.expiry>>

\* the typed-data hash of a Payment under a domain: the fields in the order of
\* PAYMENT_TYPES; address-typed fields are hashed as 20 bytes, so their case
\* does not enter the hash
TypedDataHash(domain, value) ==
  <<domain.name, domain.version, domain.chainId,
    toLowerCase(domain.verifyingContract),
    value.version, value.scheme, value.networkId, toLowerCase(value.asset),
    value.amount, toLowerCase(value.recipient), value.nonce, value.expiry>>

\* wallet.signTypedData: a signature is the signed hash under a key
signTypedData(key, domain, value) ==
  [key |-> key, hash |-> TypedDataHash(domain, value)]

MalformedSignature == [key |-> "malformed", hash |-> <<>>]

\* ethers.verifyTypedData: the signer's address when the hash is the signed
\* one, an unrelated address otherwise; it throws on malformed bytes
verifyTypedDataThrows(signature) == signature.key = "malformed"

verifyTypedData(domain, value, signature) ==
  IF signature.hash = TypedDataHash(domain, value)
    THEN Address(signature.key)
    ELSE Garbage

PaymentValue(paymentDetails) ==
  [version |-> paymentDetails.version, scheme |-> paymentDetails.scheme,
   networkId |-> paymentDetails.networkId, asset |-> paymentDetails.asset,
   amount |-> paymentDetails.amount, recipient |-> paymentDetails.recipient,
   nonce |-> paymentDetails.nonce, expiry |-> paymentDetails.expiry]

\* a verifySignature without its catch: the exception of the recovery escapes
verifySignatureThrowsMutNoCatch(signature, paymentDetails, expectedSigner) ==
  verifyTypedDataThrows(signature)

\* whether an exception escapes verifySignature: its whole body is inside
\* try / catch, so none does
verifySignatureThrows(signature, paymentDetails, expectedSigner) == FALSE

verifySignature(signature, paymentDetails, expectedSigner) ==
  LET domain == getDomain(chainId, paymentDetails.asset)
      value == PaymentValue(paymentDetails)
  IN IF verifyTypedDataThrows(signature)
       THEN FALSE
       ELSE toLowerCase(verifyTypedData(domain, value, signature))
              = toLowerCase(expectedSigner)

(***************************************************************************)
(* LocalFacilitator.verify                                                 *)
(***************************************************************************)
\* whether verify throws: it has no catch of its own, so it throws when it
\* reaches verifySignature and that throws
verifyThrows(request, t) ==
  /\ request.paymentDetails.networkId \in SUPPORTED_NETWORKS
  /\ request.paymentDetails.expiry > t
  /\ verifySignatureThrows(request.signature, request.paymentDetails,
                           request.signer)

\* a verify that still accepts a claim at its expiry
verifyMutExpiryInclusive(request, t) ==
  LET paymentDetails == request.paymentDetails
      networkMatch == paymentDetails.networkId \in SUPPORTED_NETWORKS
      notExpired == paymentDetails.expiry >= t
      signerVerified ==
        verifySignature(request.signature, paymentDetails, request.signer)
  IN IF ~networkMatch
       THEN [valid |-> FALSE, signerVerified |-> FALSE, networkMatch |-> FALSE,
             notExpired |-> TRUE, error |-> "Unsupported network"]
     ELSE IF ~notExpired
       THEN [valid |-> FALSE, signerVerified |-> FALSE, networkMatch |-> TRUE,
             notExpired |-> FALSE, error |-> "Payment has expired"]
     ELSE [valid |-> signerVerified /\ networkMatch /\ notExpired,
           signerVerified |-> signerVerified, networkMatch |-> networkMatch,
           notExpired |-> notExpired, error |-> ""]

\* a verify whose verdict leaves the signature out
verifyMutValidIgnoresSigner(request, t) ==
  LET paymentDetails == request.paymentDetails
      networkMatch == paymentDetails.networkId \in SUPPORTED_NETWORKS
      notExpired == paymentDetails.expiry > t
      signerVerified ==
        verifySignature(request.signature, paymentDetails, request.signer)
  IN IF ~networkMatch
       THEN [valid |-> FALSE, signerVerified |-> FALSE, networkMatch |-> FALSE,
             notExpired |-> TRUE, error |-> "Unsupported network"]
     ELSE IF ~notExpired
       THEN [valid |-> FALSE, signerVerified |-> FALSE, networkMatch |-> TRUE,
             notExpired |-> FALSE, error |-> "Payment has expired"]
     ELSE [valid |-> networkMatch /\ notExpired,
           signerVerified |-> signerVerified, networkMatch |-> networkMatch,
           notExpired |-> notExpired, error |-> ""]

verify(request, t) ==
  LET paymentDetails == request.paymentDetails
      networkMatch == paymentDetails.networkId \in SUPPORTED_NETWORKS
      notExpired == paymentDetails.expiry > t
      signerVerified ==
        verifySignature(request.signature, paymentDetails, request.signer)
  IN IF ~networkMatch
       THEN [valid |-> FALSE, signerVerified |-> FALSE, networkMatch |-> FALSE,
             notExpired |-> TRUE, error |-> "Unsupported network"]
     ELSE IF ~notExpired
       THEN [valid |-> FALSE, signerVerified |-> FALSE, networkMatch |-> TRUE,
             notExpired |-> FALSE, error |-> "Payment has expired"]
     ELSE [valid |-> signerVerified /\ networkMatch /\ notExpired,
           signerVerified |-> signerVerified, networkMatch |-> networkMatch,
           notExpired |-> notExpired, error |-> ""]

(***************************************************************************)
(* The payloads the model sends to settle                                  *)
(***************************************************************************)
Expiries == {1, 2}

PaymentDetails(nonce, expiry, networkId) ==
  [version |-> X402_VERSION, scheme |-> X402_SCHEME, networkId |-> networkId,
   asset |-> usdcAddress, amount |-> 1, recipient |-> MERCHANT_ADDRESS,
   nonce |-> nonce, expiry |-> expiry]

\* a payload whose signature was made with `key` over the details, and whose
\* claimed signer is `signer`
Payload(details, key, signer) ==
  [signature |-> signTypedData(key, getDomain(chainId, details.asset),
                               PaymentValue(details)),
   paymentDetails |-> details, signer |-> signer]

SettleRequests ==
  \* well-signed payments
  { Payload(PaymentDetails(n, e, CAIP2_NETWORK), HotKey, HotAddress) :
      n \in Nonces, e \in Expiries }
  \* a payment for another chain
  \cup { Payload(PaymentDetails("n1", 2, "eip155:999999"), HotKey, HotAddress) }
  \* a payment signed by a key that is not the claimed signer's
  \cup { Payload(PaymentDetails("n1", 2, CAIP2_NETWORK), OtherKey, HotAddress) }

NoRequest == Payload(PaymentDetails("", 0, ""), "", "")

(***************************************************************************)
(* Results, transaction hashes and the ledger                              *)
(***************************************************************************)
\* a transaction hash: the hash of the i-th transaction of the ledger, or the
\* fabricated hash keccak256(nonce + amount + Date.now()) of version 2
NoHash == [kind |-> "none", id |-> 0, nonce |-> "", amount |-> 0]
TxHash(i) == [kind |-> "ledger", id |-> i, nonce |-> "", amount |-> 0]
DemoHash(nonce, amount, t) ==
  [kind |-> "demo", id |-> t, nonce |-> nonce, amount |-> amount]

\* SettleResponse; blockNumber is the block of txHash on the ledger and is
\* not kept separately
SettleResponse(success, txHash, error, settlementType) ==
  [success |-> success, txHash |-> txHash, error |-> error,
   settlementType |-> settlementType]

NoResult == SettleResponse(FALSE, NoHash, "", "none")

\* ethers.getAddress(recipient), and the keccak-derived address settle falls
\* back to when the recipient is no address
isAddress(a) == a \in {"0xdEaD", "0xdead", "0xHoT", "0xhot", "0xOtHeR", "0xother"}
getAddress(a) ==
  CASE a \in {"0xdEaD", "0xdead"} -> "0xdEaD"
    [] a \in {"0xHoT", "0xhot"} -> "0xHoT"
    [] OTHER -> "0xOtHeR"
settleRecipient(recipient) ==
  IF isAddress(recipient) THEN getAddress(recipient) ELSE "0xkeccak"

\* parseUnits(formatUnits(amount, 6), 18): the same digits, read with 18
\* decimals instead of 6
amountWei(amount) == [digits |-> amount, decimals |-> 18]

\* a transaction of the ledger.  nonce and by say which payment and which
\* code path submitted it; the chain itself does not see them
Transaction(from, to, value, nonce, by) ==
  [from |-> from, to |-> to, value |-> value, status |-> "pending",
   nonce |-> nonce, by |-> by, paidFor |-> ""]

TransfersFor(nonce) ==
  { i \in 1..Len(ledger) : ledger[i].nonce = nonce }

(***************************************************************************)
(* LocalFacilitator.settle, one action per stretch between two awaits      *)
(***************************************************************************)
IdleCall ==
  [pc |-> "idle", req |-> NoRequest, verification |-> verify(NoRequest, 0),
   invoked |-> FALSE, tx |-> 0, result |-> NoResult, threw |-> FALSE,
   known |-> FALSE, atStart |-> NoResult,
   hit |-> FALSE, existing |-> NoResult, after |-> {}, client |-> 0]

has(map, key) == key \in DOMAIN map
\* a Map whose set stores nothing
setMutForgets(map, key, value) == map
set(map, key, value) ==
  [k \in DOMAIN map \cup {key} |-> IF k = key THEN value ELSE map[k]]

\* TreasuryManager.recordSpending: the history keeps its last 1000 entries.
\* An amount is the number formatted, as digits and decimal places
treasuryRecordSpending(history, amount, purpose) ==
  LET pushed == Append(history, [amount |-> amount, purpose |-> purpose])
  IN IF Len(pushed) > 1000
       THEN SubSeq(pushed, Len(pushed) - 999, Len(pushed))
       ELSE pushed

\* the settle route after `await facilitator.settle`: a successful result is
\* recorded as spending of formatUnits(amount, 6) dollars
routeRecordSpending(history, request, result) ==
  IF result.success
    THEN treasuryRecordSpending(history,
           [digits |-> request.paymentDetails.amount, decimals |-> 6],
           "x402-payment")
    ELSE history

\* settle is entered: verify runs up to its await.  known/atStart/after
\* remember the store and the finished calls at that moment
SettleEnter(c, request, client) ==
  /\ calls[c].pc = "idle"
  \* call slots are taken in order (the slots are interchangeable)
  /\ \A d \in Calls : d < c => calls[d].pc # "idle"
  /\ calls' = [calls EXCEPT ![c] =
       [IdleCall EXCEPT
          !.pc = "verified", !.req = request,
          !.verification = verify(request, now),
          !.known = has(settlements, request.paymentDetails.nonce),
          !.atStart = IF has(settlements, request.paymentDetails.nonce)
                        THEN settlements[request.paymentDetails.nonce]
                        ELSE NoResult,
          !.after = {d \in Calls : calls[d].pc = "done"},
          !.client = client]]

SettleBegin(c, request) ==
  /\ SettleEnter(c, request, 0)
  /\ UNCHANGED <<variant, now, settlements, ledger, clients, reqs,
                 purchaseHistory, served, probe, receiptProbe, engine,
                 policyProbe, spendingHistory, runs, creditBalances,
                 streamReqs, usdc, pendingApprovals, approveResult>>

\* the idempotency check: the record to return instead of transferring
hasExistingMutNever(store, settlementKey) == FALSE
existingSettlement(store, settlementKey) ==
  IF has(store, settlementKey) THEN store[settlementKey] ELSE NoResult
hasExisting(store, settlementKey) == has(store, settlementKey)

\* getSettlement(nonce): the record stored for the nonce, if any
getSettlement(store, nonce) ==
  IF has(store, nonce) THEN store[nonce] ELSE NoResult

\* after `await this.verify`: the verification verdict, the store lookup and
\* the start of wallet.sendTransaction
SettleLookup(c) ==
  LET call == calls[c]
      settlementKey == call.req.paymentDetails.nonce
  IN
  /\ call.pc = "verified"
  /\ IF ~call.verification.valid
       THEN calls' = [calls EXCEPT ![c].pc = "done",
              ![c].result = SettleResponse(FALSE, NoHash,
                 IF call.verification.error # ""
                   THEN call.verification.error
                   ELSE "Payment verification failed", "facilitator")]
     ELSE IF hasExisting(settlements, settlementKey)
       THEN calls' = [calls EXCEPT ![c].pc = "done", ![c].hit = TRUE,
              ![c].existing = existingSettlement(settlements, settlementKey),
              ![c].result = existingSettlement(settlements, settlementKey)]
     ELSE calls' = [calls EXCEPT ![c].pc = "send", ![c].invoked = TRUE]
  /\ UNCHANGED <<variant, now, settlements, ledger, clients, reqs,
                 purchaseHistory, served, probe, receiptProbe, engine,
                 policyProbe, runs, creditBalances, streamReqs, usdc,
                 pendingApprovals, approveResult>>
  /\ spendingHistory' =
       IF calls'[c].pc = "done"
         THEN routeRecordSpending(spendingHistory, call.req, calls'[c].result)
         ELSE spendingHistory

\* the catch branch of settle: version 1 returns the failure and stores
\* nothing; version 2 fabricates a hash and stores a success
SettleCatch(c) ==
  LET call == calls[c]
      settlementKey == call.req.paymentDetails.nonce
      result ==
        IF variant = 1
          THEN SettleResponse(FALSE, NoHash, "Transaction failed", "facilitator")
          ELSE SettleResponse(TRUE,
                 DemoHash(call.req.paymentDetails.nonce,
                          call.req.paymentDetails.amount, now), "", "direct")
  IN
  /\ calls' = [calls EXCEPT ![c].pc = "done", ![c].threw = TRUE,
                            ![c].result = result]
  /\ settlements' = IF variant = 1 THEN settlements
                    ELSE set(settlements, settlementKey, result)
  /\ spendingHistory' = routeRecordSpending(spendingHistory, call.req, result)

\* wallet.sendTransaction resolves: the transaction is on the ledger
SettleSendOk(c, wallet) ==
  LET call == calls[c]
  IN
  /\ call.pc = "send"
  /\ ledger' = Append(ledger,
       Transaction(Address(wallet),
                   settleRecipient(call.req.paymentDetails.recipient),
                   amountWei(call.req.paymentDetails.amount),
                   call.req.paymentDetails.nonce, "facilitator"))
  /\ calls' = [calls EXCEPT ![c].pc = "wait", ![c].tx = Len(ledger) + 1]
  /\ UNCHANGED <<variant, now, settlements, clients, reqs, purchaseHistory,
                 served, probe, receiptProbe, engine, policyProbe,
                 spendingHistory, runs, creditBalances, streamReqs, usdc,
                 pendingApprovals, approveResult>>

\* wallet.sendTransaction rejects: nothing was submitted
SettleSendThrows(c) ==
  /\ calls[c].pc = "send"
  /\ SettleCatch(c)
  /\ UNCHANGED <<variant, now, ledger, clients, reqs, purchaseHistory, served, probe,
                 receiptProbe, engine, policyProbe, runs, creditBalances,
                 streamReqs, usdc, pendingApprovals, approveResult>>

\* tx.wait resolves: the transaction is mined, the result is cached
SettleWaitOk(c) ==
  LET call == calls[c]
      settlementKey == call.req.paymentDetails.nonce
      result == SettleResponse(TRUE, TxHash(call.tx), "", "facilitator")
  IN
  /\ call.pc = "wait"
  /\ ledger' = [ledger EXCEPT ![call.tx].status = "success"]
  /\ settlements' = set(settlements, settlementKey, result)
  /\ calls' = [calls EXCEPT ![c].pc = "done", ![c].result = result]
  /\ UNCHANGED <<variant, now, clients, reqs, purchaseHistory, served, probe, receiptProbe,
                 engine, policyProbe, runs, creditBalances, streamReqs,
                 usdc, pendingApprovals, approveResult>>
  /\ spendingHistory' = routeRecordSpending(spendingHistory, call.req, result)

\* tx.wait rejects: the transaction reverted
SettleWaitThrows(c) ==
  /\ calls[c].pc = "wait"
  /\ ledger' = [ledger EXCEPT ![calls[c].tx].status = "failed"]
  /\ SettleCatch(c)
  /\ UNCHANGED <<variant, now, clients, reqs, purchaseHistory, served, probe, receiptProbe,
                 engine, policyProbe, runs, creditBalances, streamReqs,
                 usdc, pendingApprovals, approveResult>>

\* the clock
Tick ==
  /\ now < MaxTime
  /\ now' = now + 1
  /\ UNCHANGED <<variant, settlements, calls, ledger, clients, reqs,
                 purchaseHistory, served, probe, receiptProbe, engine,
                 policyProbe, spendingHistory, runs, creditBalances,
                 streamReqs, usdc, pendingApprovals, approveResult>>

(***************************************************************************)
(* Delivered contents and receipts (receipt.ts)                            *)
(***************************************************************************)
\* JSON values: strings, tokens derived from a transaction hash, arrays and
\* objects
JString(str) == [kind |-> "scalar", value |-> <<str>>]
JToken(txHash, salt) == [kind |-> "scalar", value |-> <<"sha256", txHash, salt>>]
JArray(items) == [kind |-> "array", items |-> items]
JObject(fields) == [kind |-> "object", fields |-> fields]

\* product.generateContent(txHash): tokens derived from the hash, salted per
\* product (the expiry dates of the api key are left out); the course has an
\* array of module objects
generateContent(productId, txHash) ==
  CASE productId = "api-key" ->
         JObject([type |-> JString("api-key"), apiKey |-> JToken(txHash, ""),
                  rateLimit |-> JString("1000 requests/hour"),
                  endpoints |-> JArray(<<JString("/api/products"),
                                         JString("/api/search")>>)])
    [] productId = "premium-report" ->
         JObject([type |-> JString("report"),
                  accessToken |-> JToken(txHash, "report"),
                  sections |-> JArray(<<JString("1. Executive Summary")>>)])
    [] OTHER ->
         JObject([type |-> JString("course"),
                  accessToken |-> JToken(txHash, "course"),
                  modules |-> JArray(<<
                    JObject([id |-> JString("1"),
                             title |-> JString("Introduction to Blockchain"),
                             videoUrl |-> JString("https://example.com/mod1"),
                             duration |-> JString("15min")]),
                    JObject([id |-> JString("2"),
                             title |-> JString("Ethereum Basics"),
                             videoUrl |-> JString("https://example.com/mod2"),
                             duration |-> JString("20min")])>>),
                  certificate |-> JString("true")])
NoContent == JObject([type |-> JString("")])

\* JSON.stringify(value, replacer) with an array replacer: at every depth only
\* the properties named in the array are written; array elements are all
\* written
RECURSIVE stringify(_, _)
stringify(value, replacer) ==
  IF value.kind = "object"
    THEN JObject([k \in (DOMAIN value.fields) \cap replacer |->
                    stringify(value.fields[k], replacer)])
  ELSE IF value.kind = "array"
    THEN JArray([i \in 1..Len(value.items) |->
                   stringify(value.items[i], replacer)])
  ELSE value

\* receipt.ts hashContent: sha256 of JSON.stringify(content,
\* Object.keys(content).sort())
hashContent(content) ==
  <<"sha256", stringify(content, DOMAIN content.fields)>>

\* receipt.ts: the EIP-712 domain of receipts and the typed-data hash of a
\* PaymentReceipt message (buyer is an address: its case does not enter)
RECEIPT_DOMAIN ==
  [name |-> "ArcShopper x402", version |-> "1.0", chainId |-> chainId,
   verifyingContract |-> "0x0402"]

ReceiptHashMutNoProduct(receipt) ==
  <<RECEIPT_DOMAIN, receipt.paymentTxHash, receipt.contentHash,
    receipt.amount, toLowerCase(receipt.buyer), receipt.timestamp,
    receipt.nonce>>

ReceiptHash(receipt) ==
  <<RECEIPT_DOMAIN, receipt.paymentTxHash, receipt.productId,
    receipt.contentHash, receipt.amount, toLowerCase(receipt.buyer),
    receipt.timestamp, receipt.nonce>>

\* the nonces Math.floor(Math.random() * 1000000) can give (two of them)
ReceiptNonces == {0, 1}

\* receipt.ts signReceipt at time t, with the nonce Math.random gives
signReceipt(paymentTxHash, productId, content, amount, buyer, t, nonce) ==
  LET message == [paymentTxHash |-> paymentTxHash, productId |-> productId,
                  contentHash |-> hashContent(content), amount |-> amount,
                  buyer |-> buyer, timestamp |-> t, nonce |-> nonce]
  IN [paymentTxHash |-> paymentTxHash, productId |-> productId,
      contentHash |-> hashContent(content), amount |-> amount,
      buyer |-> buyer, timestamp |-> t, nonce |-> nonce,
      signature |-> [key |-> MerchantKey, hash |-> ReceiptHash(message)],
      merchant |-> Address(MerchantKey)]

\* receipt.ts verifyReceipt
verifyReceipt(receipt) ==
  IF verifyTypedDataThrows(receipt.signature)
    THEN FALSE
    ELSE toLowerCase(IF receipt.signature.hash = ReceiptHash(receipt)
                       THEN Address(receipt.signature.key)
                       ELSE Garbage)
           = toLowerCase(receipt.merchant)

(***************************************************************************)
(* PolicyEngine (src/unnamed/part_006).  Amounts are in cents: parseAmount *)
(* and formatAmount convert between "$d.cc" and a number of dollars.  The  *)
(* clock of the engine is in days.                                         *)
(***************************************************************************)
oneDay == 1
oneWeek == 7 * oneDay
oneMonth == 30 * oneDay

\* DEFAULT_POLICY: the limits, the approval threshold, the domain rules in
\* their order, the action rules; it has no timeRestrictions
DEFAULT_POLICY ==
  [spending |-> [maxSinglePayment |-> 1000, dailyLimit |-> 10000,
                 weeklyLimit |-> 50000, monthlyLimit |-> 100000],
   approval |-> [amount |-> 2500],
   domains |-> <<[domain |-> "api.coingecko.com", allowed |-> TRUE],
                 [domain |-> "api.openai.com", allowed |-> TRUE],
                 [domain |-> "api.firecrawl.dev", allowed |-> TRUE],
                 [domain |-> "duckduckgo.com", allowed |-> TRUE],
                 [domain |-> "marketplace", allowed |-> TRUE],
                 [domain |-> "api.commerce.coinbase.com", allowed |-> TRUE],
                 [domain |-> "*", allowed |-> TRUE]>>,
   actions |-> [a \in {"search", "fetch_data", "analyze", "report", "pay",
                       "request_approval", "browse", "evaluate", "purchase"}
                  |-> [allowed |-> TRUE]],
   emergencyStop |-> FALSE]

\* a policy with limits of a few cents, one blocked action and one blocked
\* domain, and no fallback domain rule
TightPolicy ==
  [spending |-> [maxSinglePayment |-> 1, dailyLimit |-> 1,
                 weeklyLimit |-> 2, monthlyLimit |-> 3],
   approval |-> [amount |-> 1],
   domains |-> <<[domain |-> "marketplace", allowed |-> TRUE],
                 [domain |-> "duckduckgo.com", allowed |-> FALSE]>>,
   actions |-> [a \in {"pay", "browse"} |-> [allowed |-> a = "pay"]],
   emergencyStop |-> FALSE]

\* initSpendingTracker
initSpendingTracker(t) ==
  [today |-> 0, thisWeek |-> 0, thisMonth |-> 0,
   lastReset |-> [daily |-> t, weekly |-> t, monthly |-> t]]

\* new PolicyEngine(policy)
PolicyEngine(policy, t) ==
  [policy |-> policy, spending |-> initSpendingTracker(t)]

\* resetSpendingIfNeeded: each counter restarts once its period has passed
resetSpendingIfNeeded(spending, t) ==
  LET daily == t - spending.lastReset.daily > oneDay
      weekly == t - spending.lastReset.weekly > oneWeek
      monthly == t - spending.lastReset.monthly > oneMonth
  IN [today |-> IF daily THEN 0 ELSE spending.today,
      thisWeek |-> IF weekly THEN 0 ELSE spending.thisWeek,
      thisMonth |-> IF monthly THEN 0 ELSE spending.thisMonth,
      lastReset |->
        [daily |-> IF daily THEN t ELSE spending.lastReset.daily,
         weekly |-> IF weekly THEN t ELSE spending.lastReset.weekly,
         monthly |-> IF monthly THEN t ELSE spending.lastReset.monthly]]

\* a checkSpendingLimits without the daily limit
checkSpendingLimitsMutNoDaily(policy, spending, cost) ==
  (IF cost > policy.spending.maxSinglePayment
     THEN {"max_single_payment"} ELSE {})
  \cup (IF spending.thisWeek + cost > policy.spending.weeklyLimit
          THEN {"weekly_limit"} ELSE {})
  \cup (IF spending.thisMonth + cost > policy.spending.monthlyLimit
          THEN {"monthly_limit"} ELSE {})

\* checkSpendingLimits: the rules the cost violates
checkSpendingLimits(policy, spending, cost) ==
  (IF cost > policy.spending.maxSinglePayment
     THEN {"max_single_payment"} ELSE {})
  \cup (IF spending.today + cost > policy.spending.dailyLimit
          THEN {"daily_limit"} ELSE {})
  \cup (IF spending.thisWeek + cost > policy.spending.weeklyLimit
          THEN {"weekly_limit"} ELSE {})
  \cup (IF spending.thisMonth + cost > policy.spending.monthlyLimit
          THEN {"monthly_limit"} ELSE {})

\* checkAction: an action without a rule is allowed
checkAction(policy, action) ==
  IF action \in DOMAIN policy.actions /\ ~policy.actions[action].allowed
    THEN {"action_" \o action \o "_blocked"} ELSE {}

\* checkDomain: the first rule whose domain the target contains, or "*";
\* the targets of the model are whole domain names
checkDomain(policy, domain) ==
  LET matching == {i \in DOMAIN policy.domains :
                     policy.domains[i].domain \in {domain, "*"}}
  IN IF matching = {} THEN {"domain_not_allowed"}
     ELSE LET first == CHOOSE i \in matching : \A j \in matching : i <= j
          IN IF policy.domains[first].allowed THEN {} ELSE {"domain_blocked"}

\* a checkPolicy that does not look at the emergency stop
checkPolicyMutNoStop(policy, spending, actions, cost, targetDomains) ==
  LET violations ==
        checkSpendingLimits(policy, spending, cost)
        \cup UNION {checkAction(policy, a) : a \in actions}
        \cup UNION {checkDomain(policy, d) : d \in targetDomains}
  IN [allowed |-> violations = {}, violations |-> violations]

\* checkPolicy on the spending tracker as resetSpendingIfNeeded left it: the
\* rules violated, and allowed when there is none
checkPolicy(policy, spending, actions, cost, targetDomains) ==
  IF policy.emergencyStop
    THEN [allowed |-> FALSE, violations |-> {"emergency_stop"}]
  ELSE
    LET violations ==
          checkSpendingLimits(policy, spending, cost)
          \cup UNION {checkAction(policy, a) : a \in actions}
          \cup UNION {checkDomain(policy, d) : d \in targetDomains}
    IN [allowed |-> violations = {}, violations |-> violations]

\* the spending tracker after checkPolicy: the emergency stop returns before
\* resetSpendingIfNeeded
spendingAfterCheck(engine_, t) ==
  IF engine_.policy.emergencyStop THEN engine_.spending
  ELSE resetSpendingIfNeeded(engine_.spending, t)

\* recordSpending: the cost is added to the three counters
recordSpending(spending, cost) ==
  [spending EXCEPT !.today = @ + cost, !.thisWeek = @ + cost,
                   !.thisMonth = @ + cost]

\* requiresApproval
requiresApproval(policy, cost) == cost > policy.approval.amount

\* Math.random().toString(36).slice(2, 8)
Randoms == {"r1", "r2"}

\* TreasuryManager.requestApproval at time t: the request is pending and
\* expires a day later.  The id is made of the time and of six random
\* characters
ApprovalId(t, random) == <<"approval", t, random>>
requestApproval(approvals, amount, t, random) ==
  Append(approvals,
    [id |-> ApprovalId(t, random), amount |-> amount, requestedAt |-> t,
     expiresAt |-> t + oneDay, status |-> "pending"])

\* find(a => a.id === approvalId): the index of the first request with the
\* id, 0 when there is none
findApproval(approvals, approvalId) ==
  LET matching == {i \in DOMAIN approvals : approvals[i].id = approvalId}
  IN IF matching = {} THEN 0
     ELSE CHOOSE i \in matching : \A j \in matching : i <= j

\* an approveRequest that does not look at expiresAt
approveRequestMutNoExpiry(approvals, approvalId, t) ==
  LET i == findApproval(approvals, approvalId)
  IN IF i = 0 \/ approvals[i].status # "pending"
       THEN [approvals |-> approvals, returned |-> FALSE]
     ELSE [approvals |-> [approvals EXCEPT ![i].status = "approved"],
           returned |-> TRUE]

\* TreasuryManager.approveRequest at time t: the list after the call and
\* the boolean returned
approveRequest(approvals, approvalId, t) ==
  LET i == findApproval(approvals, approvalId)
  IN IF i = 0 \/ approvals[i].status # "pending"
       THEN [approvals |-> approvals, returned |-> FALSE]
     ELSE IF t > approvals[i].expiresAt
       THEN [approvals |-> [approvals EXCEPT ![i].status = "expired"],
             returned |-> FALSE]
     ELSE [approvals |-> [approvals EXCEPT ![i].status = "approved"],
           returned |-> TRUE]

\* TreasuryManager.getPendingApprovals at time t: the list it leaves, in
\* which the pending requests past their expiry are expired
getPendingApprovals(approvals, t) ==
  [i \in DOMAIN approvals |->
     IF approvals[i].status = "pending" /\ t > approvals[i].expiresAt
       THEN [approvals[i] EXCEPT !.status = "expired"]
       ELSE approvals[i]]

\* no approveRequest call has been made
NoApproveResult ==
  [calls |-> 0, id |-> ApprovalId(0, ""), at |-> 0, returned |-> FALSE]

\* a process or shop call that has not begun
IdleRun ==
  [kind |-> "", pc |-> "idle", actions |-> << >>, cost |-> 0,
   policyCheck |-> [allowed |-> FALSE, violations |-> {}],
   remaining |-> << >>, executed |-> << >>, payments |-> << >>,
   outcome |-> "", order |-> [paymentStatus |-> "", txHash |-> NoHash]]

IdlePolicyProbe ==
  [pc |-> "idle", cost |-> 0,
   spent |-> [today |-> 0, thisWeek |-> 0, thisMonth |-> 0],
   result |-> [allowed |-> FALSE, violations |-> {}]]

(***************************************************************************)
(* The settlement model: any payloads, any interleaving                    *)
(***************************************************************************)
IdleClient ==
  [pc |-> "idle", payment |-> NoRequest, call |-> 0, tx |-> 0,
   txHash |-> NoHash, status |-> "", via |-> "", run |-> 0,
   steps |-> << >>, valid |-> FALSE]

\* no receipt is on its way
NoSignedReceipt == signReceipt(0, "", NoContent, 0, "", 0, 0)
IdleReceiptProbe ==
  [pc |-> "new", content |-> NoContent, receipt |-> NoSignedReceipt,
   shown |-> NoSignedReceipt, shownContent |-> NoContent, field |-> "none",
   verified |-> FALSE, matches |-> FALSE]

\* no claim is on its way
NoOutcome == verify(NoRequest, 0)
IdleProbe ==
  [pc |-> "new", origin |-> "", details |-> NoRequest.paymentDetails,
   request |-> NoRequest, signerChain |-> "", field |-> "none", at |-> 0,
   status |-> 0, outcome |-> NoOutcome, checks |-> << >>, localAt |-> 0, local |-> NoOutcome]

InitCommon ==
  /\ probe = IdleProbe
  /\ receiptProbe = IdleReceiptProbe
  /\ engine = PolicyEngine(DEFAULT_POLICY, 0)
  /\ policyProbe = IdlePolicyProbe
  /\ spendingHistory = << >>
  /\ runs = [r \in Runs |-> IdleRun]
  /\ pendingApprovals = << >>
  /\ approveResult = NoApproveResult
  /\ creditBalances = << >>
  /\ streamReqs = << >>
  /\ usdc = [u \in {} |-> 0]
  /\ now = 0
  /\ settlements = << >>
  /\ calls = [c \in Calls |-> IdleCall]
  /\ ledger = << >>
  /\ clients = [k \in Clients |-> IdleClient]
  /\ purchaseHistory = << >>
  /\ served = {}

InitSettle ==
  /\ variant \in {1, 2}
  /\ reqs = << >>
  /\ InitCommon

NextSettle ==
  \/ \E c \in Calls, request \in SettleRequests : SettleBegin(c, request)
  \/ \E c \in Calls : SettleLookup(c)
  \/ \E c \in Calls : SettleSendOk(c, HotKey)
  \/ \E c \in Calls : SettleSendThrows(c)
  \/ \E c \in Calls : SettleWaitOk(c)
  \/ \E c \in Calls : SettleWaitThrows(c)
  \/ Tick

SpecSettle == InitSettle /\ [][NextSettle]_vars

\* settle for claims of two signers: the treasury's hot wallet, and another
\* account signing in its own name
FundingRequests ==
  { Payload(PaymentDetails(n, 2, CAIP2_NETWORK), key, Address(key)) :
      n \in Nonces, key \in {HotKey, OtherKey} }

NextFunding ==
  \/ \E c \in Calls, request \in FundingRequests : SettleBegin(c, request)
  \/ \E c \in Calls : SettleLookup(c)
  \/ \E c \in Calls : SettleSendOk(c, HotKey)
  \/ \E c \in Calls : SettleSendThrows(c)
  \/ \E c \in Calls : SettleWaitOk(c)
  \/ \E c \in Calls : SettleWaitThrows(c)
  \/ Tick

SpecFunding == InitSettle /\ [][NextFunding]_vars

\* settle on a ledger that answers: once a call awaits verify, the send or
\* the confirmation, the await is eventually resolved, with a result or with
\* a rejection
ResolveRequests ==
  { Payload(PaymentDetails("n1", 2, networkId), HotKey, HotAddress) :
      networkId \in {CAIP2_NETWORK, "eip155:999999"} }

NextResolve ==
  \/ \E c \in Calls, request \in ResolveRequests : SettleBegin(c, request)
  \/ \E c \in Calls : SettleLookup(c)
  \/ \E c \in Calls : SettleSendOk(c, HotKey)
  \/ \E c \in Calls : SettleSendThrows(c)
  \/ \E c \in Calls : SettleWaitOk(c)
  \/ \E c \in Calls : SettleWaitThrows(c)
  \/ Tick

LedgerAnswers ==
  \A c \in Calls :
    /\ WF_vars(SettleLookup(c))
    /\ WF_vars(SettleSendOk(c, HotKey) \/ SettleSendThrows(c))
    /\ WF_vars(SettleWaitOk(c) \/ SettleWaitThrows(c))

SpecResolve == InitSettle /\ [][NextResolve]_vars /\ LedgerAnswers

(***************************************************************************)
(* X402V2PaymentClient: signPayment, settlePayment, settleDirectly         *)
(***************************************************************************)
\* signPayment: the hot wallet signs the details under the client's domain,
\* whose verifyingContract is the configured USDC address
signPayment(paymentDetails) ==
  [signature |->
     signTypedData(HotKey,
       [name |-> "x402", version |-> X402_VERSION, chainId |-> chainId,
        verifyingContract |-> usdcAddress],
       PaymentValue(paymentDetails)),
   paymentDetails |-> paymentDetails,
   signer |-> Address(HotKey)]

\* the body settlePayment posts to <facilitatorUrl>/v2/settle
settleBody(signedPayment) ==
  [signature |-> signedPayment.signature,
   paymentDetails |-> signedPayment.paymentDetails,
   signer |-> signedPayment.signer]

ClientPayments ==
  { signPayment(PaymentDetails(n, e, CAIP2_NETWORK)) :
      n \in Nonces, e \in Expiries }

\* formatAmount: the amount in 6-decimal units as dollars with two decimals
directAmount(amount) ==
  [digits |-> (amount + 5000) \div 10000, decimals |-> 2]

\* formatAmount then parseUnits(.., 18) in settleDirectly: the amount in
\* 6-decimal units is rounded to cents by toFixed(2) before it is sent
directAmountWei(amount) ==
  [digits |-> ((amount + 5000) \div 10000) * 10000, decimals |-> 18]

\* getAddress(recipient), or the fixed fallback address 0x1111..
directRecipient(recipient) ==
  IF isAddress(recipient) THEN getAddress(recipient) ELSE "0x1111"

\* settlePayment: axios.post to the facilitator; the route hands the body to
\* LocalFacilitator.settle with the treasury's hot wallet
SettlePaymentPost(k, c, signedPayment) ==
  /\ clients[k].pc = "idle"
  /\ SettleEnter(c, settleBody(signedPayment), k)
  /\ clients' = [clients EXCEPT ![k] =
       [IdleClient EXCEPT !.pc = "post", !.payment = signedPayment,
                          !.call = c]]
  /\ UNCHANGED <<variant, now, settlements, ledger, reqs, purchaseHistory,
                 served, probe, receiptProbe, engine, policyProbe,
                 spendingHistory, runs, creditBalances, streamReqs, usdc,
                 pendingApprovals, approveResult>>

\* the facilitator's response arrives: a txHash ends settlePayment, anything
\* else falls through to settleDirectly
responseHasTxHash(data) == data.txHash # NoHash

SettlePaymentResponse(k) ==
  LET client == clients[k]
      data == calls[client.call].result
  IN
  /\ client.pc = "post"
  /\ calls[client.call].pc = "done"
  /\ clients' = [clients EXCEPT ![k] =
       IF responseHasTxHash(data)
         THEN [client EXCEPT !.pc = "done", !.txHash = data.txHash,
                             !.status = "confirmed", !.via = "facilitator"]
         ELSE [client EXCEPT !.pc = "direct-send", !.via = "direct"]]
  /\ UNCHANGED <<variant, now, settlements, calls, ledger, reqs,
                 purchaseHistory, served, probe, receiptProbe, engine,
                 policyProbe, spendingHistory, runs, creditBalances,
                 streamReqs, usdc, pendingApprovals, approveResult>>

\* axios.post rejects (the 30 s timeout, a network error) while the
\* facilitator may still be working: the catch falls through to
\* settleDirectly
SettlePaymentPostFails(k) ==
  /\ clients[k].pc = "post"
  /\ clients' = [clients EXCEPT ![k].pc = "direct-send",
                                ![k].via = "direct"]
  /\ UNCHANGED <<variant, now, settlements, calls, ledger, reqs,
                 purchaseHistory, served, probe, receiptProbe, engine,
                 policyProbe, spendingHistory, runs, creditBalances,
                 streamReqs, usdc, pendingApprovals, approveResult>>

\* settleDirectly: wallet.sendTransaction resolves
DirectSendOk(k) ==
  LET details == clients[k].payment.paymentDetails
  IN
  /\ clients[k].pc = "direct-send"
  /\ ledger' = Append(ledger,
       Transaction(Address(HotKey), directRecipient(details.recipient),
                   directAmountWei(details.amount), details.nonce, "direct"))
  /\ clients' = [clients EXCEPT ![k].pc = "direct-wait",
                                ![k].tx = Len(ledger) + 1]
  /\ UNCHANGED <<variant, now, settlements, calls, reqs, purchaseHistory,
                 served, probe, receiptProbe, engine, policyProbe,
                 spendingHistory, runs, creditBalances, streamReqs, usdc,
                 pendingApprovals, approveResult>>

\* settleDirectly: wallet.sendTransaction rejects, the error is rethrown
DirectSendThrows(k) ==
  /\ clients[k].pc = "direct-send"
  /\ clients' = [clients EXCEPT ![k].pc = "done", ![k].status = "threw"]
  /\ UNCHANGED <<variant, now, settlements, calls, ledger, reqs,
                 purchaseHistory, served, probe, receiptProbe, engine,
                 policyProbe, spendingHistory, runs, creditBalances,
                 streamReqs, usdc, pendingApprovals, approveResult>>

\* settleDirectly: tx.wait resolves
DirectWaitOk(k) ==
  /\ clients[k].pc = "direct-wait"
  /\ ledger' = [ledger EXCEPT ![clients[k].tx].status = "success"]
  /\ clients' = [clients EXCEPT ![k].pc = "done",
                                ![k].txHash = TxHash(clients[k].tx),
                                ![k].status = "confirmed"]
  /\ UNCHANGED <<variant, now, settlements, calls, reqs, purchaseHistory,
                 served, probe, receiptProbe, engine, policyProbe, runs,
                 creditBalances, streamReqs, usdc, pendingApprovals,
                 approveResult>>
  /\ spendingHistory' =
       treasuryRecordSpending(spendingHistory,
         directAmount(clients[k].payment.paymentDetails.amount),
         "x402-payment")

\* settleDirectly: tx.wait rejects, the error is rethrown
DirectWaitThrows(k) ==
  /\ clients[k].pc = "direct-wait"
  /\ ledger' = [ledger EXCEPT ![clients[k].tx].status = "failed"]
  /\ clients' = [clients EXCEPT ![k].pc = "done", ![k].status = "threw"]
  /\ UNCHANGED <<variant, now, settlements, calls, reqs, purchaseHistory,
                 served, probe, receiptProbe, engine, policyProbe,
                 spendingHistory, runs, creditBalances, streamReqs, usdc,
                 pendingApprovals, approveResult>>

NextClient ==
  \/ \E k \in Clients, c \in Calls, signedPayment \in ClientPayments :
       SettlePaymentPost(k, c, signedPayment)
  \/ \E c \in Calls : SettleLookup(c)
  \/ \E c \in Calls : SettleSendOk(c, HotKey)
  \/ \E c \in Calls : SettleSendThrows(c)
  \/ \E c \in Calls : SettleWaitOk(c)
  \/ \E c \in Calls : SettleWaitThrows(c)
  \/ \E k \in Clients : SettlePaymentResponse(k)
  \/ \E k \in Clients : SettlePaymentPostFails(k)
  \/ \E k \in Clients : DirectSendOk(k)
  \/ \E k \in Clients : DirectSendThrows(k)
  \/ \E k \in Clients : DirectWaitOk(k)
  \/ \E k \in Clients : DirectWaitThrows(k)
  \/ Tick

SpecClient == InitSettle /\ [][NextClient]_vars

(***************************************************************************)
(* The x402 digital products handler and the purchase history              *)
(***************************************************************************)
Reqs == 1..MaxReqs
BuyerAddress == "0xbuyer"
ZeroAddress == "0x0000"

\* DIGITAL_PRODUCTS: id -> price in cents (two of the six products)
DIGITAL_PRODUCTS == [p \in {"api-key", "premium-report"} |->
                      IF p = "api-key" THEN 50 ELSE 100]

\* provider.getTransactionReceipt(txHash): null until the transaction is
\* mined, then its status (1 success, 0 reverted)
NoReceipt == [found |-> FALSE, status |-> 0]
getTransactionReceipt(chain, txHash) ==
  IF txHash \in 1..Len(chain) /\ chain[txHash].status # "pending"
    THEN [found |-> TRUE,
          status |-> IF chain[txHash].status = "success" THEN 1 ELSE 0]
    ELSE NoReceipt

\* provider.getTransaction(txHash)?.from, or the zero address
buyerOf(chain, txHash) ==
  IF txHash \in 1..Len(chain) THEN chain[txHash].from ELSE ZeroAddress

\* the two proof checks of the handler
receiptFoundMutAlways(receipt) == TRUE
receiptFound(receipt) == receipt.found
receiptSucceededMutAny(receipt) == TRUE
receiptSucceeded(receipt) == receipt.status = 1

\* history.ts addPurchase: push onto the user's list
addPurchase(history, userId, purchase) ==
  set(history, userId,
      Append(IF has(history, userId) THEN history[userId] ELSE << >>,
             purchase))

\* the JSON bodies of the handler's answers that carry no content; DOMAIN of
\* a body is the set of its keys
NoBody == [error |-> ""]
ProductNotFoundBody == [error |-> "Product not found"]
PaymentRequiredBody(productId) ==
  [error |-> "Payment Required", protocol |-> "x402", version |-> "1.0",
   payment |-> [amount |-> DIGITAL_PRODUCTS[productId], currency |-> "USDC",
                network |-> "arc-testnet", chainId |-> chainId,
                recipient |-> MERCHANT_ADDRESS, token |-> usdcAddress],
   product |-> productId,
   instructions |->
     "Transfer USDC to recipient and retry with X-Payment-TxHash header"]
TransactionNotFoundBody(txHash) ==
  [error |-> "Transaction not found", txHash |-> txHash,
   message |-> "Payment not yet confirmed. Please wait and retry."]
TransactionFailedBody(txHash) ==
  [error |-> "Transaction failed", txHash |-> txHash]

\* the signed payment a client may attach to its retry instead of a
\* transaction hash
RetryPayment == signPayment(PaymentDetails("n1", 2, CAIP2_NETWORK))

IdleReq ==
  [pc |-> "idle", productId |-> "", txHash |-> 0, receipt |-> NoReceipt,
   content |-> NoContent, buyer |-> "", status |-> 0, error |-> "",
   delivered |-> NoContent, body |-> NoBody, signedPayment |-> NoRequest]

\* up to the first await: product lookup, the proof header, the 402 challenge
\* the handler reads the product id and the X-Payment-TxHash header only: a
\* signed payment sent with the request is not looked at
HandlerBegin(r, id, txHash, signedPayment) ==
  LET productId == IF id = "" THEN "api-key" ELSE id
      request == [IdleReq EXCEPT !.productId = productId,
                                 !.signedPayment = signedPayment]
  IN
  /\ reqs[r].pc = "idle"
  \* request slots are taken in order (the slots are interchangeable)
  /\ \A q \in Reqs : q < r => reqs[q].pc # "idle"
  /\ reqs' = [reqs EXCEPT ![r] =
       IF productId \notin DOMAIN DIGITAL_PRODUCTS
         THEN [request EXCEPT !.pc = "done",
                              !.status = 404, !.error = "Product not found",
                              !.body = ProductNotFoundBody]
       ELSE IF txHash = 0
         THEN [request EXCEPT !.pc = "done",
                              !.status = 402, !.error = "Payment Required",
                              !.body = PaymentRequiredBody(productId)]
       ELSE [request EXCEPT !.pc = "getReceipt", !.txHash = txHash]]
  /\ UNCHANGED <<variant, now, settlements, calls, ledger, clients,
                 purchaseHistory, served, probe, receiptProbe, engine,
                 policyProbe, spendingHistory, runs, creditBalances,
                 streamReqs, usdc, pendingApprovals, approveResult>>

\* getTransactionReceipt resolves: the proof checks, then generateContent and
\* hashContent, up to the await of getTransaction
HandlerReceipt(r) ==
  LET req == reqs[r]
      receipt == getTransactionReceipt(ledger, req.txHash)
  IN
  /\ req.pc = "getReceipt"
  /\ reqs' = [reqs EXCEPT ![r] =
       IF ~receiptFound(receipt)
         THEN [req EXCEPT !.pc = "done", !.receipt = receipt, !.status = 402,
                          !.error = "Transaction not found",
                          !.body = TransactionNotFoundBody(req.txHash)]
       ELSE IF ~receiptSucceeded(receipt)
         THEN [req EXCEPT !.pc = "done", !.receipt = receipt, !.status = 402,
                          !.error = "Transaction failed",
                          !.body = TransactionFailedBody(req.txHash)]
       ELSE [req EXCEPT !.pc = "getTx", !.receipt = receipt,
               !.content = generateContent(req.productId, req.txHash)]]
  /\ UNCHANGED <<variant, now, settlements, calls, ledger, clients,
                 purchaseHistory, served, probe, receiptProbe, engine,
                 policyProbe, spendingHistory, runs, creditBalances,
                 streamReqs, usdc, pendingApprovals, approveResult>>

\* getTransaction resolves: the buyer, up to the await of signReceipt
HandlerGetTx(r) ==
  /\ reqs[r].pc = "getTx"
  /\ reqs' = [reqs EXCEPT ![r].pc = "sign",
                          ![r].buyer = buyerOf(ledger, reqs[r].txHash)]
  /\ UNCHANGED <<variant, now, settlements, calls, ledger, clients,
                 purchaseHistory, served, probe, receiptProbe, engine,
                 policyProbe, spendingHistory, runs, creditBalances,
                 streamReqs, usdc, pendingApprovals, approveResult>>

\* signReceipt resolves: addPurchase and the 200 response with the content
HandlerSign(r, nonce) ==
  LET req == reqs[r]
      signedReceipt ==
        signReceipt(req.txHash, req.productId, req.content,
                    DIGITAL_PRODUCTS[req.productId], req.buyer, now, nonce)
  IN
  /\ req.pc = "sign"
  /\ purchaseHistory' = addPurchase(purchaseHistory, req.buyer,
       [productId |-> req.productId,
        amount |-> DIGITAL_PRODUCTS[req.productId], txHash |-> req.txHash,
        contentHash |-> hashContent(req.content), receipt |-> signedReceipt,
        userId |-> req.buyer])
  /\ reqs' = [reqs EXCEPT ![r].pc = "done", ![r].status = 200,
                          ![r].delivered = req.content]
  /\ UNCHANGED <<variant, now, settlements, calls, ledger, clients, served, probe,
                 receiptProbe, engine, policyProbe, spendingHistory, runs,
                 creditBalances, streamReqs, usdc, pendingApprovals,
                 approveResult>>

\* an awaited call rejects: the catch answers 500
HandlerThrows(r) ==
  /\ reqs[r].pc \in {"getReceipt", "getTx", "sign"}
  /\ reqs' = [reqs EXCEPT ![r].pc = "done", ![r].status = 500,
                          ![r].error = "Payment verification failed"]
  /\ UNCHANGED <<variant, now, settlements, calls, ledger, clients,
                 purchaseHistory, served, probe, receiptProbe, engine,
                 policyProbe, spendingHistory, runs, creditBalances,
                 streamReqs, usdc, pendingApprovals, approveResult>>

\* a payer transfers the price of product p to the merchant
Pay(p) ==
  /\ Len(ledger) < MaxLedger
  /\ ledger' = Append(ledger,
       [Transaction(BuyerAddress, MERCHANT_ADDRESS,
                    [digits |-> DIGITAL_PRODUCTS[p], decimals |-> 2], "",
                    "payer") EXCEPT !.paidFor = p])
  /\ UNCHANGED <<variant, now, settlements, calls, clients, reqs,
                 purchaseHistory, served, probe, receiptProbe, engine,
                 policyProbe, spendingHistory, runs, creditBalances,
                 streamReqs, usdc, pendingApprovals, approveResult>>

\* the chain mines a pending transaction
Mine(i, status) ==
  /\ i \in 1..Len(ledger)
  /\ ledger[i].status = "pending"
  /\ ledger' = [ledger EXCEPT ![i].status = status]
  /\ UNCHANGED <<variant, now, settlements, calls, clients, reqs,
                 purchaseHistory, served, probe, receiptProbe, engine,
                 policyProbe, spendingHistory, runs, creditBalances,
                 streamReqs, usdc, pendingApprovals, approveResult>>

InitGated ==
  /\ variant = 1
  /\ reqs = [r \in Reqs |-> IdleReq]
  /\ InitCommon

\* the draw of Math.random the handler's receipts carry here; the receipts
\* are varied on their own below
HandlerNonces == {0}

NextGated ==
  \/ \E r \in Reqs, id \in {"", "api-key", "premium-report", "no-such"},
        txHash \in 0..MaxLedger :
       \E signedPayment \in
            {NoRequest} \cup (IF txHash = 0 /\ id = "api-key"
                                 THEN {RetryPayment} ELSE {}) :
         HandlerBegin(r, id, txHash, signedPayment)
  \/ \E r \in Reqs : HandlerReceipt(r)
  \/ \E r \in Reqs : HandlerGetTx(r)
  \/ \E r \in Reqs, nonce \in HandlerNonces : HandlerSign(r, nonce)
  \/ \E r \in Reqs : HandlerThrows(r)
  \/ \E p \in DOMAIN DIGITAL_PRODUCTS : Pay(p)
  \/ \E i \in 1..MaxLedger, status \in {"success", "failed"} : Mine(i, status)

SpecGated == InitGated /\ [][NextGated]_vars

(***************************************************************************)
(* The /api/gated/* routes of the server                                   *)
(***************************************************************************)
\* what a request to a gated route carries as x402 payment
Payments == {"none", "expired", "valid"}

\* res.json of a route: the handlers take the request as `_` and answer
\* with the content
respond(route, payment, content) ==
  [route |-> route, payment |-> payment, status |-> 200, success |-> TRUE,
   content |-> content]

\* GET /api/gated/crypto-prices: CoinGecko data, or the cached prices when
\* the upstream call fails
GatedCryptoPrices(payment, upstreamOk) ==
  /\ served' = served \cup
       {respond("crypto-prices", payment,
                IF upstreamOk THEN "CoinGecko API" ELSE "Cached data")}
  /\ UNCHANGED <<variant, now, settlements, calls, ledger, clients, reqs,
                 purchaseHistory, probe, receiptProbe, engine, policyProbe,
                 spendingHistory, runs, creditBalances, streamReqs, usdc,
                 pendingApprovals, approveResult>>

\* GET /api/gated/premium-image
GatedPremiumImage(payment) ==
  /\ served' = served \cup {respond("premium-image", payment, "svg")}
  /\ UNCHANGED <<variant, now, settlements, calls, ledger, clients, reqs,
                 purchaseHistory, probe, receiptProbe, engine, policyProbe,
                 spendingHistory, runs, creditBalances, streamReqs, usdc,
                 pendingApprovals, approveResult>>

\* GET /api/gated/trend-report
GatedTrendReport(payment) ==
  /\ served' = served \cup {respond("trend-report", payment, "report")}
  /\ UNCHANGED <<variant, now, settlements, calls, ledger, clients, reqs,
                 purchaseHistory, probe, receiptProbe, engine, policyProbe,
                 spendingHistory, runs, creditBalances, streamReqs, usdc,
                 pendingApprovals, approveResult>>

\* GET /api/gated/arc-course
GatedArcCourse(payment) ==
  /\ served' = served \cup {respond("arc-course", payment, "course")}
  /\ UNCHANGED <<variant, now, settlements, calls, ledger, clients, reqs,
                 purchaseHistory, probe, receiptProbe, engine, policyProbe,
                 spendingHistory, runs, creditBalances, streamReqs, usdc,
                 pendingApprovals, approveResult>>

InitRoutes ==
  /\ variant = 1
  /\ reqs = << >>
  /\ InitCommon

NextRoutes ==
  \/ \E payment \in Payments, upstreamOk \in BOOLEAN :
       GatedCryptoPrices(payment, upstreamOk)
  \/ \E payment \in Payments : GatedPremiumImage(payment)
  \/ \E payment \in Payments : GatedTrendReport(payment)
  \/ \E payment \in Payments : GatedArcCourse(payment)

SpecRoutes == InitRoutes /\ [][NextRoutes]_vars

(***************************************************************************)
(* One payment claim from creation to verification: createPaymentDetails,  *)
(* signPayment, a change of one field on the way, LocalFacilitator.verify  *)
(* behind POST /api/x402/v2/verify, and the client's verifyPayment         *)
(***************************************************************************)
\* the amount of a payment request is a string: a sequence of characters
Digits == <<"0", "1", "2", "3", "4", "5", "6", "7", "8", "9">>
IsDigit(ch) == \E i \in 1..10 : Digits[i] = ch
DigitValue(ch) == (CHOOSE i \in 1..10 : Digits[i] = ch) - 1

\* String.prototype.replace(ch, ''): the first occurrence is removed
replaceFirst(str, ch) ==
  IF \E i \in 1..Len(str) : str[i] = ch
    THEN LET i == CHOOSE j \in 1..Len(str) :
                    str[j] = ch /\ \A k \in 1..(j - 1) : str[k] # ch
         IN SubSeq(str, 1, i - 1) \o SubSeq(str, i + 1, Len(str))
    ELSE str

RECURSIVE DigitsValue(_)
DigitsValue(str) ==
  IF str = << >> THEN 0
  ELSE DigitsValue(SubSeq(str, 1, Len(str) - 1)) * 10 + DigitValue(str[Len(str)])

Pow10(n) == IF n = 0 THEN 1 ELSE IF n = 1 THEN 10 ELSE IF n = 2 THEN 100
            ELSE IF n = 3 THEN 1000 ELSE IF n = 4 THEN 10000
            ELSE IF n = 5 THEN 100000 ELSE 1000000

\* ethers.parseUnits(str, decimals): str must match /^(-?)([0-9]*)\.?([0-9]*)$/
\* with at least one digit, and have no non-zero digit past the decimals
unitsNegative(str) == str # << >> /\ str[1] = "-"
unitsBody(str) == IF unitsNegative(str) THEN SubSeq(str, 2, Len(str)) ELSE str
unitsWhole(str) ==
  LET body == unitsBody(str)
  IN IF \E i \in 1..Len(body) : body[i] = "."
       THEN SubSeq(body, 1, (CHOOSE i \in 1..Len(body) :
               body[i] = "." /\ \A k \in 1..(i - 1) : body[k] # ".") - 1)
       ELSE body
unitsDecimal(str) ==
  LET body == unitsBody(str)
  IN SubSeq(body, Len(unitsWhole(str)) + 2, Len(body))
parseUnitsThrows(str, decimals) ==
  \/ \E i \in 1..Len(unitsWhole(str)) : ~IsDigit(unitsWhole(str)[i])
  \/ \E i \in 1..Len(unitsDecimal(str)) : ~IsDigit(unitsDecimal(str)[i])
  \/ Len(unitsWhole(str)) + Len(unitsDecimal(str)) = 0
  \/ \E i \in (decimals + 1)..Len(unitsDecimal(str)) : unitsDecimal(str)[i] # "0"
parseUnits(str, decimals) ==
  LET padded == unitsDecimal(str) \o [i \in 1..decimals |-> "0"]
      decimal == SubSeq(padded, 1, decimals)
      magnitude == DigitsValue(unitsWhole(str)) * Pow10(decimals)
                     + DigitsValue(decimal)
  IN IF unitsNegative(str) THEN 0 - magnitude ELSE magnitude

\* the amounts of the payment requests of the model
RequestAmounts ==
  { <<"$", "1">>, <<"0", ".", "5">>, <<"$", "0", ".", "0">>, <<"0">>,
    <<"-", "1">>, <<"1", ",", "0">>, <<"f", "r", "e", "e">>, << >> }

PaymentRequests ==
  [amount : RequestAmounts, recipient : {MERCHANT_ADDRESS}]

\* X402V2PaymentClient.createPaymentDetails at time t, with the nonce that
\* generateNonce draws
createPaymentDetailsThrows(request) ==
  parseUnitsThrows(replaceFirst(replaceFirst(request.amount, "$"), ","), 6)

createPaymentDetails(request, nonce, t) ==
  LET amountClean == replaceFirst(replaceFirst(request.amount, "$"), ",")
      amountUnits == parseUnits(amountClean, 6)
  IN [version |-> X402_VERSION, scheme |-> X402_SCHEME,
      networkId |-> CAIP2_NETWORK, asset |-> usdcAddress,
      amount |-> amountUnits, recipient |-> request.recipient,
      nonce |-> nonce, expiry |-> t + 300]

\* signTypedData encodes amount and expiry as uint256 and throws on a
\* negative number
signPaymentThrows(paymentDetails) ==
  paymentDetails.amount < 0 \/ paymentDetails.expiry < 0

\* the claims a caller hands to signPayment without createPaymentDetails
OtherAsset == "0xA0b8"
ProbeClaims ==
  [version : {X402_VERSION}, scheme : {X402_SCHEME},
   networkId : {CAIP2_NETWORK, "eip155:999999"},
   asset : {usdcAddress, OtherAsset}, amount : {1},
   recipient : {MERCHANT_ADDRESS}, nonce : {"n1"}, expiry : Expiries]

\* the fields of a payload and the values one of them can be changed to
TamperFields ==
  {"version", "scheme", "networkId", "asset", "amount", "recipient", "nonce",
   "expiry", "signer", "signature"}
TamperValues(field) ==
  CASE field = "version" -> {"1", "2"}
    [] field = "scheme" -> {"exact", "upto"}
    [] field = "networkId" -> {CAIP2_NETWORK, "eip155:999999"}
    [] field = "asset" -> {usdcAddress, OtherAsset, "0xa0b8"}
    [] field = "amount" -> {1, 2}
    [] field = "recipient" -> {"0xdEaD", "0xdead", "0xOtHeR"}
    [] field = "nonce" -> Nonces
    [] field = "expiry" -> {0} \cup Expiries
    [] field = "signer" -> {"0xHoT", "0xhot", "0xOtHeR", "0xother"}
    [] field = "signature" -> {MalformedSignature}

fieldOf(request, field) ==
  IF field \in {"signer", "signature"} THEN request[field]
  ELSE request.paymentDetails[field]
withField(request, field, value) ==
  IF field \in {"signer", "signature"} THEN [request EXCEPT ![field] = value]
  ELSE [request EXCEPT !.paymentDetails[field] = value]

\* a verify that recovers the signature before it looks at the expiry
verifyChecksMutRecoversFirst(request, t) ==
  IF request.paymentDetails.networkId \notin SUPPORTED_NETWORKS
    THEN <<"network">>
  ELSE IF ~(request.paymentDetails.expiry > t)
    THEN <<"network", "signature", "expiry">>
  ELSE <<"network", "signature", "expiry">>

\* the checks LocalFacilitator.verify evaluates, in the order it runs them
verifyChecks(request, t) ==
  IF request.paymentDetails.networkId \notin SUPPORTED_NETWORKS
    THEN <<"network">>
  ELSE IF ~(request.paymentDetails.expiry > t)
    THEN <<"network", "expiry">>
  ELSE <<"network", "expiry", "signature">>

\* X402V2PaymentClient.verifySignatureLocally
verifySignatureLocally(signedPayment) ==
  LET domain == [name |-> "x402", version |-> X402_VERSION,
                 chainId |-> chainId, verifyingContract |-> usdcAddress]
      value == PaymentValue(signedPayment.paymentDetails)
  IN IF verifyTypedDataThrows(signedPayment.signature)
       THEN FALSE
       ELSE toLowerCase(verifyTypedData(domain, value, signedPayment.signature))
              = toLowerCase(signedPayment.signer)

\* X402V2PaymentClient.verifyPayment at time t; facilitatorUp says whether
\* the POST to <facilitatorUrl>/v2/verify is answered
verifyPayment(signedPayment, signerChain, t, facilitatorUp) ==
  LET notExpired == signedPayment.paymentDetails.expiry > t
      networkMatch == signerChain = CAIP2_NETWORK
      data == verify(settleBody(signedPayment), t)
      signerVerified == verifySignatureLocally(signedPayment)
  IN IF ~notExpired
       THEN [valid |-> FALSE, signerVerified |-> FALSE,
             networkMatch |-> networkMatch, notExpired |-> notExpired,
             error |-> "Payment expired"]
     ELSE IF ~networkMatch
       THEN [valid |-> FALSE, signerVerified |-> FALSE,
             networkMatch |-> networkMatch, notExpired |-> notExpired,
             error |-> "Network mismatch"]
     ELSE IF facilitatorUp
       THEN [valid |-> data.valid, signerVerified |-> data.signerVerified,
             networkMatch |-> TRUE, notExpired |-> TRUE, error |-> ""]
     ELSE [valid |-> signerVerified /\ notExpired /\ networkMatch,
           signerVerified |-> signerVerified, networkMatch |-> networkMatch,
           notExpired |-> notExpired, error |-> ""]

\* createPaymentDetails is called for a payment request
CreatePaymentDetails(request, nonce) ==
  /\ probe.pc = "new"
  /\ probe' =
       IF createPaymentDetailsThrows(request)
         THEN [probe EXCEPT !.pc = "rejected", !.origin = "createPaymentDetails"]
         ELSE [probe EXCEPT !.pc = "created",
                            !.origin = "createPaymentDetails",
                            !.details = createPaymentDetails(request, nonce, now),
                            !.at = now]
  /\ UNCHANGED <<variant, now, settlements, calls, ledger, clients, reqs,
                 purchaseHistory, served, receiptProbe, engine,
                 policyProbe, spendingHistory, runs, creditBalances,
                 streamReqs, usdc, pendingApprovals, approveResult>>

\* signPayment is called, for the details createPaymentDetails made or for
\* details of the caller's own
SignPayment(paymentDetails) ==
  /\ \/ probe.pc = "created" /\ paymentDetails = probe.details
     \/ probe.pc = "new" /\ paymentDetails \in ProbeClaims
  /\ probe' =
       IF signPaymentThrows(paymentDetails)
         THEN [probe EXCEPT !.pc = "rejected"]
         ELSE [probe EXCEPT !.pc = "signed", !.origin = "signPayment",
                            !.details = paymentDetails,
                            !.request = signPayment(paymentDetails),
                            !.signerChain = CAIP2_NETWORK]
  /\ UNCHANGED <<variant, now, settlements, calls, ledger, clients, reqs,
                 purchaseHistory, served, receiptProbe, engine,
                 policyProbe, spendingHistory, runs, creditBalances,
                 streamReqs, usdc, pendingApprovals, approveResult>>

\* executePayment: the details createPaymentDetails made go to signPayment
SignCreated ==
  /\ probe.pc = "created"
  /\ SignPayment(probe.details)

\* a payer other than the client signs a claim with its key, under the domain
\* the facilitator rebuilds
SignClaim(paymentDetails, key) ==
  /\ probe.pc = "new"
  /\ paymentDetails \in ProbeClaims
  /\ probe' = [probe EXCEPT !.pc = "signed", !.origin = "payer",
                            !.details = paymentDetails,
                            !.request = Payload(paymentDetails, key, Address(key)),
                            !.signerChain = paymentDetails.networkId]
  /\ UNCHANGED <<variant, now, settlements, calls, ledger, clients, reqs,
                 purchaseHistory, served, receiptProbe, engine,
                 policyProbe, spendingHistory, runs, creditBalances,
                 streamReqs, usdc, pendingApprovals, approveResult>>

\* one field of the signed payload is changed on the way to the facilitator
Tamper(field, value) ==
  /\ probe.pc = "signed"
  /\ probe.field = "none"
  /\ value \in TamperValues(field)
  /\ value # fieldOf(probe.request, field)
  /\ probe' = [probe EXCEPT !.field = field,
                            !.request = withField(probe.request, field, value)]
  /\ UNCHANGED <<variant, now, settlements, calls, ledger, clients, reqs,
                 purchaseHistory, served, receiptProbe, engine,
                 policyProbe, spendingHistory, runs, creditBalances,
                 streamReqs, usdc, pendingApprovals, approveResult>>

\* the body of the route's 500 answer, {valid: false, error}; the flags it
\* does not carry read as false
VerificationFailed ==
  [valid |-> FALSE, signerVerified |-> FALSE, networkMatch |-> FALSE,
   notExpired |-> FALSE, error |-> "Verification failed"]

\* a verify route that remembers the nonces it has seen in the store
VerifyRouteMutMarksNonce ==
  /\ probe.pc \in {"signed", "verified"}
  /\ probe' = [probe EXCEPT
       !.pc = "verified", !.at = now,
       !.status = IF verifyThrows(probe.request, now) THEN 500 ELSE 200,
       !.outcome = IF verifyThrows(probe.request, now)
                     THEN VerificationFailed
                     ELSE verify(probe.request, now),
       !.checks = verifyChecks(probe.request, now)]
  /\ settlements' = set(settlements, probe.request.paymentDetails.nonce,
                        SettleResponse(FALSE, NoHash, "verified", "facilitator"))
  /\ UNCHANGED <<variant, now, calls, ledger, clients, reqs,
                 purchaseHistory, served, receiptProbe, engine,
                 policyProbe, spendingHistory, runs, creditBalances,
                 streamReqs, usdc, pendingApprovals, approveResult>>

\* POST /api/x402/v2/verify: the route answers with LocalFacilitator.verify of
\* the body, read at the current time, or with 500 when verify throws
VerifyRoute ==
  /\ probe.pc \in {"signed", "verified"}
  /\ probe' = [probe EXCEPT
       !.pc = "verified", !.at = now,
       !.status = IF verifyThrows(probe.request, now) THEN 500 ELSE 200,
       !.outcome = IF verifyThrows(probe.request, now)
                     THEN VerificationFailed
                     ELSE verify(probe.request, now),
       !.checks = verifyChecks(probe.request, now)]
  /\ UNCHANGED <<variant, now, settlements, calls, ledger, clients, reqs,
                 purchaseHistory, served, receiptProbe, engine,
                 policyProbe, spendingHistory, runs, creditBalances,
                 streamReqs, usdc, pendingApprovals, approveResult>>

\* the client's verifyPayment of the payload it holds
VerifyPayment(facilitatorUp) ==
  /\ probe.pc = "verified"
  /\ probe.local = NoOutcome
  /\ probe' = [probe EXCEPT !.localAt = now, !.local =
       verifyPayment(probe.request, probe.signerChain, now, facilitatorUp)]
  /\ UNCHANGED <<variant, now, settlements, calls, ledger, clients, reqs,
                 purchaseHistory, served, receiptProbe, engine,
                 policyProbe, spendingHistory, runs, creditBalances,
                 streamReqs, usdc, pendingApprovals, approveResult>>

\* the stores the facilitator can hold when a claim arrives: nothing yet, or
\* the settlement of an earlier payment with its transaction on the ledger
SettledBefore ==
  [settlements |-> [n \in {"n2"} |->
                      SettleResponse(TRUE, TxHash(1), "", "facilitator")],
   ledger |-> << [Transaction(HotAddress, MERCHANT_ADDRESS, amountWei(1), "n2",
                              "facilitator") EXCEPT !.status = "success"] >>]

InitVerify ==
  /\ variant = 1
  /\ now = 0
  /\ \/ settlements = << >> /\ ledger = << >>
     \/ settlements = SettledBefore.settlements /\ ledger = SettledBefore.ledger
  /\ calls = [c \in Calls |-> IdleCall]
  /\ clients = [k \in Clients |-> IdleClient]
  /\ reqs = << >>
  /\ purchaseHistory = << >>
  /\ served = {}
  /\ probe = IdleProbe
  /\ receiptProbe = IdleReceiptProbe
  /\ engine = PolicyEngine(DEFAULT_POLICY, 0)
  /\ policyProbe = IdlePolicyProbe
  /\ spendingHistory = << >>
  /\ runs = [r \in Runs |-> IdleRun]
  /\ pendingApprovals = << >>
  /\ approveResult = NoApproveResult
  /\ creditBalances = << >>
  /\ streamReqs = << >>
  /\ usdc = [u \in {} |-> 0]

NextVerify ==
  \/ \E request \in PaymentRequests, nonce \in Nonces :
       CreatePaymentDetails(request, nonce)
  \/ \E paymentDetails \in ProbeClaims : SignPayment(paymentDetails)
  \/ SignCreated
  \/ \E paymentDetails \in ProbeClaims, key \in {HotKey, OtherKey} :
       SignClaim(paymentDetails, key)
  \/ \E field \in TamperFields : \E value \in TamperValues(field) :
       Tamper(field, value)
  \/ VerifyRoute
  \/ \E facilitatorUp \in BOOLEAN : VerifyPayment(facilitatorUp)
  \/ Tick

SpecVerify == InitVerify /\ [][NextVerify]_vars

(***************************************************************************)
(* One receipt from signReceipt to verifyReceipt, with a change of one of  *)
(* its fields or of the delivered content on the way                       *)
(***************************************************************************)
ReceiptProducts == {"api-key", "premium-report", "solidity-course"}
ReceiptBuyers == {BuyerAddress, ZeroAddress}
ReceiptAmounts == {50, 100}
ReceiptTxHashes == {1, 2}

ReceiptFields ==
  {"paymentTxHash", "productId", "contentHash", "amount", "buyer",
   "timestamp", "nonce", "merchant"}
ReceiptValues(field) ==
  CASE field = "paymentTxHash" -> {1, 2, 3}
    [] field = "productId" -> ReceiptProducts
    [] field = "contentHash" -> {hashContent(NoContent)}
    [] field = "amount" -> {1} \cup ReceiptAmounts
    [] field = "buyer" -> {"0xbuyer", "0xBuYeR", "0xOtHeR"}
    [] field = "timestamp" -> {0, 1, 7}
    [] field = "nonce" -> {2} \cup ReceiptNonces
    [] field = "merchant" -> {"0xMeRcH", "0xmerch", "0xOtHeR"}

\* contents that differ from a delivered content in one value: at the top,
\* in an element of an array of strings, in a field of an object inside an
\* array, or in the length of an array
AlteredContents(content) ==
  { [content EXCEPT !.fields.type = JString("altered")] }
  \cup ( IF "endpoints" \in DOMAIN content.fields
           THEN { [content EXCEPT !.fields.endpoints.items[1] =
                                     JString("/api/altered")] }
           ELSE {} )
  \cup ( IF "sections" \in DOMAIN content.fields
           THEN { [content EXCEPT !.fields.sections.items[1] =
                                     JString("altered")] }
           ELSE {} )
  \cup ( IF "modules" \in DOMAIN content.fields
           THEN { [content EXCEPT !.fields.modules.items[1].fields.title =
                                     JString("altered")],
                  [content EXCEPT !.fields.modules.items = Tail(@)] }
           ELSE {} )

\* signReceipt for a delivery
SignReceipt(paymentTxHash, productId, amount, buyer, nonce) ==
  LET content == generateContent(productId, paymentTxHash)
      receipt == signReceipt(paymentTxHash, productId, content, amount, buyer,
                             now, nonce)
  IN
  /\ receiptProbe.pc = "new"
  /\ receiptProbe' = [receiptProbe EXCEPT
       !.pc = "signed", !.content = content, !.receipt = receipt,
       !.shown = receipt, !.shownContent = content]
  /\ UNCHANGED <<variant, now, settlements, calls, ledger, clients, reqs,
                 purchaseHistory, served, probe, engine, policyProbe,
                 spendingHistory, runs, creditBalances, streamReqs, usdc,
                 pendingApprovals, approveResult>>

\* one field of the receipt is changed before it is shown to a verifier
TamperReceipt(field, value) ==
  /\ receiptProbe.pc = "signed"
  /\ receiptProbe.field = "none"
  /\ receiptProbe.shownContent = receiptProbe.content
  /\ value \in ReceiptValues(field)
  /\ value # receiptProbe.shown[field]
  /\ receiptProbe' = [receiptProbe EXCEPT !.field = field,
                                          !.shown[field] = value]
  /\ UNCHANGED <<variant, now, settlements, calls, ledger, clients, reqs,
                 purchaseHistory, served, probe, engine, policyProbe,
                 spendingHistory, runs, creditBalances, streamReqs, usdc,
                 pendingApprovals, approveResult>>

\* another content than the delivered one is shown with the receipt
AlterContent(content) ==
  /\ receiptProbe.pc = "signed"
  /\ receiptProbe.field = "none"
  /\ receiptProbe.shownContent = receiptProbe.content
  /\ content \in AlteredContents(receiptProbe.content)
  /\ receiptProbe' = [receiptProbe EXCEPT !.shownContent = content]
  /\ UNCHANGED <<variant, now, settlements, calls, ledger, clients, reqs,
                 purchaseHistory, served, probe, engine, policyProbe,
                 spendingHistory, runs, creditBalances, streamReqs, usdc,
                 pendingApprovals, approveResult>>

\* the verifier: verifyReceipt of the receipt shown, and the hash of the
\* content shown against the receipt's contentHash
VerifyReceipt ==
  /\ receiptProbe.pc = "signed"
  /\ receiptProbe' = [receiptProbe EXCEPT
       !.pc = "verified",
       !.verified = verifyReceipt(receiptProbe.shown),
       !.matches = (hashContent(receiptProbe.shownContent)
                      = receiptProbe.shown.contentHash)]
  /\ UNCHANGED <<variant, now, settlements, calls, ledger, clients, reqs,
                 purchaseHistory, served, probe, engine, policyProbe,
                 spendingHistory, runs, creditBalances, streamReqs, usdc,
                 pendingApprovals, approveResult>>

InitReceipt ==
  /\ variant = 1
  /\ reqs = << >>
  /\ InitCommon

NextReceipt ==
  \/ \E paymentTxHash \in ReceiptTxHashes, productId \in ReceiptProducts,
        amount \in ReceiptAmounts, buyer \in ReceiptBuyers,
        nonce \in ReceiptNonces :
       SignReceipt(paymentTxHash, productId, amount, buyer, nonce)
  \/ \E field \in ReceiptFields : \E value \in ReceiptValues(field) :
       TamperReceipt(field, value)
  \/ \E content \in UNION { AlteredContents(generateContent(p, t)) :
                              p \in ReceiptProducts, t \in ReceiptTxHashes } :
       AlterContent(content)
  \/ VerifyReceipt
  \/ Tick

SpecReceipt == InitReceipt /\ [][NextReceipt]_vars

(***************************************************************************)
(* The policy engine on its own: checkPolicy and recordSpending under a    *)
(* policy of a few cents, recordSpending only for a cost that the          *)
(* preceding checkPolicy allowed                                           *)
(***************************************************************************)
MaxDays == 33
PolicyCosts == {1, 2}
\* the actions and the target domains of a check: allowed ones, a blocked
\* action, a blocked domain, a domain without a rule
PolicyTargets ==
  {[actions |-> {"pay"}, domains |-> {"marketplace"}],
   [actions |-> {"browse"}, domains |-> {"marketplace"}],
   [actions |-> {"pay"}, domains |-> {"duckduckgo.com"}],
   [actions |-> {"pay"}, domains |-> {"api.openai.com"}]}
\* the days that pass at once: more than a day, a week, a month
Elapsed == {2, 8, 31}

\* checkPolicy(actions, estimatedCost, targetDomains): the counters are
\* reset when their period has passed, then the cost is checked
CheckPolicy(actions, cost, targetDomains) ==
  LET spending == spendingAfterCheck(engine, now)
  IN
  /\ engine' = [engine EXCEPT !.spending = spending]
  /\ policyProbe' =
       [pc |-> "checked", cost |-> cost,
        spent |-> [today |-> spending.today, thisWeek |-> spending.thisWeek,
                   thisMonth |-> spending.thisMonth],
        result |-> checkPolicy(engine.policy, spending, actions, cost,
                               targetDomains)]
  /\ UNCHANGED <<variant, now, settlements, calls, ledger, clients, reqs,
                 purchaseHistory, served, probe, receiptProbe,
                 spendingHistory, runs, creditBalances, streamReqs, usdc,
                 pendingApprovals, approveResult>>

\* recordSpending(c) for the cost c the last checkPolicy allowed
RecordSpending ==
  /\ policyProbe.pc = "checked"
  /\ policyProbe.result.allowed
  /\ engine' = [engine EXCEPT
       !.spending = recordSpending(engine.spending, policyProbe.cost)]
  /\ policyProbe' = [policyProbe EXCEPT !.pc = "recorded"]
  /\ UNCHANGED <<variant, now, settlements, calls, ledger, clients, reqs,
                 purchaseHistory, served, probe, receiptProbe,
                 spendingHistory, runs, creditBalances, streamReqs, usdc,
                 pendingApprovals, approveResult>>

\* getSpendingStatus resets the counters whose period has passed
GetSpendingStatus ==
  /\ engine' = [engine EXCEPT
       !.spending = resetSpendingIfNeeded(engine.spending, now)]
  /\ engine' # engine
  /\ UNCHANGED <<variant, now, settlements, calls, ledger, clients, reqs,
                 purchaseHistory, served, probe, receiptProbe, policyProbe,
                 spendingHistory, runs, creditBalances, streamReqs, usdc,
                 pendingApprovals, approveResult>>

\* setEmergencyStop(active), from POST /api/policy/emergency-stop
SetEmergencyStop(active) ==
  /\ engine.policy.emergencyStop # active
  /\ engine' = [engine EXCEPT !.policy.emergencyStop = active]
  /\ UNCHANGED <<variant, now, settlements, calls, ledger, clients, reqs,
                 purchaseHistory, served, probe, receiptProbe, policyProbe,
                 spendingHistory, runs, creditBalances, streamReqs, usdc,
                 pendingApprovals, approveResult>>

\* days pass
Elapse(days) ==
  /\ now + days <= MaxDays
  /\ now' = now + days
  /\ UNCHANGED <<variant, settlements, calls, ledger, clients, reqs,
                 purchaseHistory, served, probe, receiptProbe, engine,
                 policyProbe, spendingHistory, runs, creditBalances,
                 streamReqs, usdc, pendingApprovals, approveResult>>

InitPolicy ==
  /\ variant = 1
  /\ now = 0
  /\ settlements = << >>
  /\ ledger = << >>
  /\ calls = [c \in Calls |-> IdleCall]
  /\ clients = [k \in Clients |-> IdleClient]
  /\ reqs = << >>
  /\ purchaseHistory = << >>
  /\ served = {}
  /\ probe = IdleProbe
  /\ receiptProbe = IdleReceiptProbe
  /\ engine = PolicyEngine(TightPolicy, 0)
  /\ policyProbe = IdlePolicyProbe
  /\ spendingHistory = << >>
  /\ runs = [r \in Runs |-> IdleRun]
  /\ pendingApprovals = << >>
  /\ approveResult = NoApproveResult
  /\ creditBalances = << >>
  /\ streamReqs = << >>
  /\ usdc = [u \in {} |-> 0]

NextPolicy ==
  \/ \E target \in PolicyTargets, cost \in PolicyCosts :
       CheckPolicy(target.actions, cost, target.domains)
  \/ RecordSpending
  \/ GetSpendingStatus
  \/ \E active \in BOOLEAN : SetEmergencyStop(active)
  \/ \E days \in Elapsed : Elapse(days)

SpecPolicy == InitPolicy /\ [][NextPolicy]_vars

(***************************************************************************)
(* TrustlessAgent.process (src/unnamed/part_009) and ShoppingAgent.shop    *)
(* (src/src/commerce/marketplace.ts) over one PolicyEngine.  Amounts are   *)
(* in cents.  The outcome of makePayment is drawn here; its steps are the  *)
(* client's, above.                                                        *)
(***************************************************************************)
\* the intents drawn: those whose actions are paid in whole cents
Intents == {"web_search", "analysis"}

\* determineActions
determineActions(intent) ==
  CASE intent = "market_data_analysis" -> <<"fetch_data", "analyze", "report">>
    [] intent = "web_search" -> <<"search", "analyze", "report">>
    [] intent = "crypto_analysis" -> <<"fetch_data", "analyze", "report">>
    [] OTHER -> <<"analyze", "report">>

\* the cost table of estimateCost, for the actions of the intents drawn
actionCost(action) ==
  CASE action = "search" -> 1
    [] action = "analyze" -> 2
    [] action \in {"report", "pay", "request_approval", "browse", "purchase"}
         -> 0
    [] action = "evaluate" -> 1

RECURSIVE estimateCost(_)
estimateCost(actions) ==
  IF actions = << >> THEN 0
  ELSE actionCost(Head(actions)) + estimateCost(Tail(actions))

\* extractDomains
extractDomains(actions) ==
  LET includes(a) == \E i \in DOMAIN actions : actions[i] = a
  IN (IF includes("fetch_data") THEN {"api.coingecko.com"} ELSE {})
     \cup (IF includes("search") THEN {"api.firecrawl.dev"} ELSE {})
     \cup (IF includes("analyze") THEN {"api.openai.com"} ELSE {})

\* paymentAmount of a successful action
paymentAmount(action) ==
  CASE action = "search" -> 1
    [] action = "analyze" -> 2

\* the loop of execute moves to its next action: search and analyze are
\* issued and awaited, report completes at once, the end of the list ends
\* the run
RECURSIVE startNext(_, _)
startNext(run, remaining) ==
  IF remaining = << >>
    THEN [run EXCEPT !.pc = "done", !.remaining = << >>,
                     !.outcome = "executed"]
  ELSE IF Head(remaining) = "report"
    THEN startNext([run EXCEPT !.executed = Append(@, "report")],
                   Tail(remaining))
  ELSE [run EXCEPT !.pc = "action", !.remaining = remaining,
                   !.executed = Append(@, Head(remaining))]

\* process up to `await this.treasury.canSpend`: think plans the actions,
\* estimates their cost and asks the policy engine
ProcessThink(r, intent) ==
  LET actions == determineActions(intent)
      cost == estimateCost(actions)
      spending == spendingAfterCheck(engine, now)
  IN
  /\ runs[r].pc = "idle"
  /\ \A q \in Runs : q < r => runs[q].pc # "idle"
  /\ engine' = [engine EXCEPT !.spending = spending]
  /\ runs' = [runs EXCEPT ![r] =
       [IdleRun EXCEPT
          !.kind = "process", !.pc = "canSpend", !.actions = actions,
          !.cost = cost,
          !.policyCheck =
            checkPolicy(engine.policy, spending,
                        {actions[i] : i \in DOMAIN actions}, cost,
                        extractDomains(actions))]]
  /\ UNCHANGED <<variant, now, settlements, calls, ledger, clients, reqs,
                 purchaseHistory, served, probe, receiptProbe, policyProbe,
                 spendingHistory, creditBalances, streamReqs, usdc,
                 pendingApprovals, approveResult>>

\* canSpend has answered: a decision that is not approved, or that needs a
\* human approval, ends the call; otherwise execute issues the first action
ProcessDecide(r, canSpend) ==
  LET run == runs[r]
      approved == run.policyCheck.allowed /\ canSpend
  IN
  /\ run.pc = "canSpend"
  /\ runs' = [runs EXCEPT ![r] =
       IF ~approved
         THEN [run EXCEPT !.pc = "done", !.outcome = "blocked"]
       ELSE IF requiresApproval(engine.policy, run.cost)
         THEN [run EXCEPT !.pc = "done", !.outcome = "awaiting approval"]
       ELSE startNext(run, run.actions)]
  /\ \E random \in Randoms :
       pendingApprovals' =
         IF approved /\ requiresApproval(engine.policy, run.cost)
           THEN requestApproval(pendingApprovals, run.cost, now, random)
           ELSE pendingApprovals
  /\ UNCHANGED <<variant, now, settlements, calls, ledger, clients, reqs,
                 purchaseHistory, served, probe, receiptProbe, engine,
                 policyProbe, spendingHistory, creditBalances, streamReqs,
                 usdc, approveResult>>

\* the awaited action returns: with a payment due, makePaymentForAction is
\* called; otherwise the loop moves on
ActionDone(r, paymentRequired) ==
  LET run == runs[r]
  IN
  /\ run.pc = "action"
  /\ runs' = [runs EXCEPT ![r] =
       IF paymentRequired THEN [run EXCEPT !.pc = "pay"]
       ELSE startNext(run, Tail(run.remaining))]
  /\ UNCHANGED <<variant, now, settlements, calls, ledger, clients, reqs,
                 purchaseHistory, served, probe, receiptProbe, engine,
                 policyProbe, spendingHistory, creditBalances, streamReqs,
                 usdc, pendingApprovals, approveResult>>

\* makePaymentForAction after `await makePayment`: a payment that is
\* returned, confirmed or failed, is recorded by the treasury and by the
\* policy engine; a throw is turned into a failed payment
PayDone(r, status) ==
  LET run == runs[r]
      action == Head(run.remaining)
      amount == paymentAmount(action)
      paid == [run EXCEPT !.payments =
                 Append(@, [amount |-> amount,
                            status |-> IF status = "threw" THEN "failed"
                                       ELSE status])]
  IN
  /\ run.pc = "pay"
  /\ spendingHistory' =
       IF status = "threw" THEN spendingHistory
       ELSE treasuryRecordSpending(spendingHistory,
              [digits |-> amount, decimals |-> 2], action)
  /\ engine' =
       IF status = "threw" THEN engine
       ELSE [engine EXCEPT !.spending = recordSpending(@, amount)]
  /\ runs' = [runs EXCEPT ![r] = startNext(paid, Tail(run.remaining))]
  /\ UNCHANGED <<variant, now, settlements, calls, ledger, clients, reqs,
                 purchaseHistory, served, probe, receiptProbe, policyProbe,
                 creditBalances, streamReqs, usdc, pendingApprovals,
                 approveResult>>

\* the prices of the products a search selects, in cents; 0 when no product
\* matches
SelectedPrices == {0, 99, 999}

\* shop up to `await orderManager.purchase`: analyzeShoppingRequest selects
\* a product and asks the policy engine; an approved purchase is issued
ShopAnalyze(r, price) ==
  LET spending == spendingAfterCheck(engine, now)
      policyCheck == checkPolicy(engine.policy, spending, {"pay"}, price,
                                 {"marketplace"})
      approved == policyCheck.allowed /\ price # 0
      run == [IdleRun EXCEPT !.kind = "shop", !.actions = <<"purchase">>,
                             !.cost = price, !.policyCheck = policyCheck]
  IN
  /\ runs[r].pc = "idle"
  /\ \A q \in Runs : q < r => runs[q].pc # "idle"
  /\ engine' = [engine EXCEPT !.spending = spending]
  /\ runs' = [runs EXCEPT ![r] =
       IF ~approved
         THEN [run EXCEPT !.pc = "done", !.outcome = "blocked"]
       ELSE IF requiresApproval(engine.policy, price)
         THEN [run EXCEPT !.pc = "done", !.outcome = "awaiting approval"]
       ELSE [run EXCEPT !.pc = "purchase", !.remaining = <<"purchase">>,
                        !.executed = <<"purchase">>]]
  /\ UNCHANGED <<variant, now, settlements, calls, ledger, clients, reqs,
                 purchaseHistory, served, probe, receiptProbe, policyProbe,
                 spendingHistory, creditBalances, streamReqs, usdc,
                 pendingApprovals, approveResult>>

\* orderManager.purchase returns (the payment confirmed, or failed and the
\* order left pending) and the price is recorded by the policy engine, or
\* it throws
ShopPurchaseDone(r, status) ==
  LET run == runs[r]
  IN
  /\ run.pc = "purchase"
  /\ engine' =
       IF status = "threw" THEN engine
       ELSE [engine EXCEPT !.spending = recordSpending(@, run.cost)]
  /\ runs' = [runs EXCEPT ![r] =
       [run EXCEPT !.pc = "done", !.remaining = << >>,
                   !.outcome = IF status = "threw" THEN "failed"
                               ELSE "purchased",
                   !.payments =
                     IF status = "threw" THEN @
                     ELSE Append(@, [amount |-> run.cost,
                                     status |-> status])]]
  /\ UNCHANGED <<variant, now, settlements, calls, ledger, clients, reqs,
                 purchaseHistory, served, probe, receiptProbe, policyProbe,
                 spendingHistory, creditBalances, streamReqs, usdc,
                 pendingApprovals, approveResult>>

PaymentStatuses == {"confirmed", "failed", "threw"}

InitAgent ==
  /\ variant = 1
  /\ reqs = << >>
  /\ InitCommon

NextAgent ==
  \/ \E r \in Runs, intent \in Intents : ProcessThink(r, intent)
  \/ \E r \in Runs, canSpend \in BOOLEAN : ProcessDecide(r, canSpend)
  \/ \E r \in Runs, paymentRequired \in BOOLEAN : ActionDone(r, paymentRequired)
  \/ \E r \in Runs, status \in PaymentStatuses : PayDone(r, status)
  \/ \E r \in Runs, price \in SelectedPrices : ShopAnalyze(r, price)
  \/ \E r \in Runs, status \in PaymentStatuses : ShopPurchaseDone(r, status)
  \/ \E active \in BOOLEAN : SetEmergencyStop(active)
  \/ Tick

SpecAgent == InitAgent /\ [][NextAgent]_vars

(***************************************************************************)
(* ShoppingAgent.shop with its payment: OrderManager.purchase,             *)
(* executeX402Payment, makePayment and X402V2PaymentClient.executePayment  *)
(* (src/unnamed/part_004), settled by the facilitator or directly          *)
(***************************************************************************)
\* the catalog prices of the products selected, as the catalog writes them
priceString(price) ==
  CASE price = 99 -> <<"$", "0", ".", "9", "9">>
    [] price = 999 -> <<"$", "9", ".", "9", "9">>

\* generateNonce: 32 random bytes, a different nonce on every call
PaymentNonces == <<"n1", "n2", "n3", "n4">>

\* who answers the POST to <facilitatorUrl>/v2/verify: the facilitator of
\* this repository, a facilitator at X402_FACILITATOR_URL that does not
\* accept the claim, or nobody
FacilitatorAnswers == {"local", "foreign", "down"}

\* verifyPayment inside executePayment: the client's own checks come first,
\* then the verdict is the facilitator's, or the local one when the
\* facilitator does not answer
executeVerify(signedPayment, t, answer) ==
  LET own == verifyPayment(signedPayment, CAIP2_NETWORK, t, answer = "local")
  IN IF answer = "foreign" /\ own.error = ""
       THEN [own EXCEPT !.valid = FALSE, !.signerVerified = FALSE]
       ELSE own

\* `if (!verification.valid)` of executePayment
verificationValidMutAlways(verification) == TRUE
verificationValid(verification) == verification.valid

\* executePayment up to settlePayment, for call r of the shopping agent (0
\* when makePayment is called by itself): createPaymentDetails, signPayment
\* and verifyPayment.  A throw of the first two leaves executePayment; an
\* invalid verification ends it with status 'failed'
ExecutePayment(k, r, request, nonce, answer) ==
  LET paymentDetails == createPaymentDetails(request, nonce, now)
      signedPayment == signPayment(paymentDetails)
      verification == executeVerify(signedPayment, now, answer)
      begun == [IdleClient EXCEPT !.run = r]
      signed == [begun EXCEPT !.payment = signedPayment,
                              !.valid = verification.valid,
                              !.steps = <<"create", "sign", "verify">>]
  IN
  /\ clients[k].pc = "idle"
  /\ clients' = [clients EXCEPT ![k] =
       IF createPaymentDetailsThrows(request)
         THEN [begun EXCEPT !.pc = "done", !.status = "threw",
                            !.steps = <<"create">>]
       ELSE IF signPaymentThrows(paymentDetails)
         THEN [begun EXCEPT !.pc = "done", !.status = "threw",
                            !.steps = <<"create", "sign">>]
       ELSE IF verificationValid(verification)
         THEN [signed EXCEPT !.pc = "verified"]
       ELSE [signed EXCEPT !.pc = "done", !.status = "failed"]]

\* makePayment(amount, recipient, service)
MakePayment(k, request, answer) ==
  /\ ExecutePayment(k, 0, request, PaymentNonces[k], answer)
  /\ UNCHANGED <<variant, now, settlements, calls, ledger, reqs,
                 purchaseHistory, served, probe, receiptProbe, engine,
                 policyProbe, spendingHistory, runs, creditBalances,
                 streamReqs, usdc, pendingApprovals, approveResult>>

\* purchase after `await createOrder`: executeX402Payment calls makePayment
\* for the price of the order
ShopExecutePayment(r, k, answer) ==
  /\ runs[r].kind = "shop"
  /\ runs[r].pc = "purchase"
  /\ ExecutePayment(k, r, [amount |-> priceString(runs[r].cost),
                           recipient |-> MERCHANT_ADDRESS],
                    PaymentNonces[r], answer)
  /\ runs' = [runs EXCEPT ![r].pc = "paying"]
  /\ UNCHANGED <<variant, now, settlements, calls, ledger, reqs,
                 purchaseHistory, served, probe, receiptProbe, engine,
                 policyProbe, spendingHistory, creditBalances, streamReqs,
                 usdc, pendingApprovals, approveResult>>

\* executePayment step 4: settlePayment posts the signed payment to the
\* facilitator
ExecuteSettle(k, c) ==
  /\ clients[k].pc = "verified"
  /\ SettleEnter(c, settleBody(clients[k].payment), k)
  /\ clients' = [clients EXCEPT ![k].pc = "post", ![k].call = c,
                                ![k].steps = Append(@, "settle")]
  /\ UNCHANGED <<variant, now, settlements, ledger, reqs, purchaseHistory,
                 served, probe, receiptProbe, engine, policyProbe,
                 spendingHistory, runs, creditBalances, streamReqs, usdc,
                 pendingApprovals, approveResult>>

\* makePayment has returned or thrown.  executeX402Payment marks the order
\* confirmed or pending and returns it, and shop records the cost in the
\* policy engine and reports the purchase; a throw ends shop in its catch
ShopPurchaseReturns(r, k) ==
  LET run == runs[r]
      payment == clients[k]
      order == [paymentStatus |-> IF payment.status = "confirmed"
                                    THEN "confirmed" ELSE "pending",
                txHash |-> payment.txHash]
  IN
  /\ run.pc = "paying"
  /\ payment.pc = "done"
  /\ payment.run = r
  /\ clients' = [clients EXCEPT ![k] = IdleClient]
  /\ engine' =
       IF payment.status = "threw" THEN engine
       ELSE [engine EXCEPT !.spending = recordSpending(@, run.cost)]
  /\ runs' = [runs EXCEPT ![r] =
       IF payment.status = "threw"
         THEN [run EXCEPT !.pc = "done", !.remaining = << >>,
                          !.outcome = "failed",
                          !.order = [paymentStatus |-> "failed",
                                     txHash |-> NoHash]]
         ELSE [run EXCEPT !.pc = "done", !.remaining = << >>,
                          !.outcome = "purchased", !.order = order,
                          !.payments =
                            Append(@, [amount |-> run.cost,
                                       status |-> payment.status])]]
  /\ UNCHANGED <<variant, now, settlements, calls, ledger, reqs,
                 purchaseHistory, served, probe, receiptProbe, policyProbe,
                 spendingHistory, creditBalances, streamReqs, usdc,
                 pendingApprovals, approveResult>>

\* what the engine has recorded today when the calls of the model begin:
\* nothing, or nine purchases of $9.99
SpentBefore == {0, 9 * 999}

InitShop ==
  /\ variant = 1
  /\ reqs = << >>
  /\ probe = IdleProbe
  /\ receiptProbe = IdleReceiptProbe
  /\ \E spent \in SpentBefore :
       engine = [PolicyEngine(DEFAULT_POLICY, 0) EXCEPT
                   !.spending = recordSpending(@, spent)]
  /\ policyProbe = IdlePolicyProbe
  /\ spendingHistory = << >>
  /\ runs = [r \in Runs |-> IdleRun]
  /\ pendingApprovals = << >>
  /\ approveResult = NoApproveResult
  /\ creditBalances = << >>
  /\ streamReqs = << >>
  /\ usdc = [u \in {} |-> 0]
  /\ now = 0
  /\ settlements = << >>
  /\ calls = [c \in Calls |-> IdleCall]
  /\ ledger = << >>
  /\ clients = [k \in Clients |-> IdleClient]
  /\ purchaseHistory = << >>
  /\ served = {}

NextShop ==
  \/ \E r \in Runs, price \in SelectedPrices : ShopAnalyze(r, price)
  \/ \E r \in Runs, k \in Clients, answer \in FacilitatorAnswers :
       ShopExecutePayment(r, k, answer)
  \/ \E k \in Clients, c \in Calls : ExecuteSettle(k, c)
  \/ \E c \in Calls : SettleLookup(c)
  \/ \E c \in Calls : SettleSendOk(c, HotKey)
  \/ \E c \in Calls : SettleSendThrows(c)
  \/ \E c \in Calls : SettleWaitOk(c)
  \/ \E c \in Calls : SettleWaitThrows(c)
  \/ \E k \in Clients : SettlePaymentResponse(k)
  \/ \E k \in Clients : SettlePaymentPostFails(k)
  \/ \E k \in Clients : DirectSendOk(k)
  \/ \E k \in Clients : DirectSendThrows(k)
  \/ \E k \in Clients : DirectWaitOk(k)
  \/ \E k \in Clients : DirectWaitThrows(k)
  \/ \E r \in Runs, k \in Clients : ShopPurchaseReturns(r, k)

SpecShop == InitShop /\ [][NextShop]_vars

\* makePayment by itself: for an amount that is paid, one that signPayment
\* refuses and one that createPaymentDetails refuses
PayRequests ==
  { request \in PaymentRequests :
      request.amount \in {<<"$", "1">>, <<"-", "1">>, <<"f", "r", "e", "e">>} }

NextPay ==
  \/ \E k \in Clients, request \in PayRequests,
          answer \in FacilitatorAnswers : MakePayment(k, request, answer)
  \/ \E k \in Clients, c \in Calls : ExecuteSettle(k, c)
  \/ \E c \in Calls : SettleLookup(c)
  \/ \E c \in Calls : SettleSendOk(c, HotKey)
  \/ \E c \in Calls : SettleSendThrows(c)
  \/ \E c \in Calls : SettleWaitOk(c)
  \/ \E c \in Calls : SettleWaitThrows(c)
  \/ \E k \in Clients : SettlePaymentResponse(k)
  \/ \E k \in Clients : SettlePaymentPostFails(k)
  \/ \E k \in Clients : DirectSendOk(k)
  \/ \E k \in Clients : DirectSendThrows(k)
  \/ \E k \in Clients : DirectWaitOk(k)
  \/ \E k \in Clients : DirectWaitThrows(k)
  \/ Tick

SpecPay == InitAgent /\ [][NextPay]_vars

(***************************************************************************)
(* Credits: getAccount, addCredits, useCredits and the stream handler      *)
(* (src/unnamed/part_003), with transferUsdc of the user's wallet.         *)
(* Credit amounts are JavaScript numbers (IEEE 754 doubles).  A number of  *)
(* the model is big * 2^53 + small with |small| far below 2^53: the sums   *)
(* are exact up to 2^53 and rounded to the nearest double, ties to even,   *)
(* beyond.                                                                 *)
(***************************************************************************)
MaxStreamReqs == 3   \* requests of the credits handler
StreamReqs == 1..MaxStreamReqs
MaxBig == 2          \* the numbers of the model stay within 2 * 2^53

Num(big, small) == [big |-> big, small |-> small]
numNegative(x) == x.big < 0 \/ (x.big = 0 /\ x.small < 0)
numNegate(x) == Num(-x.big, -x.small)
numLess(x, y) == x.big < y.big \/ (x.big = y.big /\ x.small < y.small)

\* the distance between neighbouring doubles at the magnitude m >= 0
ulp(m) ==
  IF m.big < 1 \/ (m.big = 1 /\ m.small <= 0) THEN 1
  ELSE IF m.big < 2 \/ (m.big = 2 /\ m.small <= 0) THEN 2
  ELSE IF m.big < 4 \/ (m.big = 4 /\ m.small <= 0) THEN 4
  ELSE 8

\* small rounded to a multiple of q, a tie going to the even multiple
roundTiesToEven(small, q) ==
  LET rem == small % q
      lo == small - rem
  IN IF rem = 0 THEN small
     ELSE IF 2 * rem < q THEN lo
     ELSE IF 2 * rem > q THEN lo + q
     ELSE IF (lo \div q) % 2 = 0 THEN lo ELSE lo + q

\* the double nearest to the exact value x
toDouble(x) ==
  LET m == IF numNegative(x) THEN numNegate(x) ELSE x
      r == Num(m.big, roundTiesToEven(m.small, ulp(m)))
  IN IF numNegative(x) THEN numNegate(r) ELSE r

\* x + y and x - y of JavaScript
numAdd(x, y) == toDouble(Num(x.big + y.big, x.small + y.small))
numSub(x, y) == toDouble(Num(x.big - y.big, x.small - y.small))

\* the `credits` of a request body, and what parseInt makes of it
RawCredits == {"1", "2", "0", "-1", "-9007199254740992", "lots"}
NaN == [nan |-> TRUE, value |-> Num(0, 0)]
parseInt(raw) ==
  CASE raw = "1" -> [nan |-> FALSE, value |-> Num(0, 1)]
    [] raw = "2" -> [nan |-> FALSE, value |-> Num(0, 2)]
    [] raw = "0" -> [nan |-> FALSE, value |-> Num(0, 0)]
    [] raw = "-1" -> [nan |-> FALSE, value |-> Num(0, -1)]
    [] raw = "-9007199254740992" -> [nan |-> FALSE, value |-> Num(-1, 0)]
    [] OTHER -> NaN

\* parseInt(credits) || fallback: NaN and 0 are falsy
parseIntOr(raw, fallback) ==
  LET parsed == parseInt(raw)
  IN IF parsed.nan \/ parsed.value = Num(0, 0) THEN Num(0, fallback)
     ELSE parsed.value

\* COST_PER_CREDIT, in 6-decimal units of USDC
COST_PER_CREDIT == 15000

\* getAccount: the account of the user, created empty when there is none
NewAccount ==
  [balance |-> Num(0, 0), totalPurchased |-> Num(0, 0),
   totalUsed |-> Num(0, 0), transactions |-> << >>]
getAccount(balances, userId) ==
  IF has(balances, userId) THEN balances ELSE set(balances, userId, NewAccount)

\* addCredits
addCredits(balances, userId, credits) ==
  LET account == getAccount(balances, userId)[userId]
  IN set(balances, userId,
       [account EXCEPT
          !.balance = numAdd(@, credits),
          !.totalPurchased = numAdd(@, credits),
          !.transactions = Append(@, [type |-> "purchase",
                                      amount |-> credits])])

\* useCredits: the map after the call and the number returned, -1 when the
\* balance is less than the credits asked for
useCredits(balances, userId, credits) ==
  LET created == getAccount(balances, userId)
      account == created[userId]
  IN IF numLess(account.balance, credits)
       THEN [balances |-> created, returned |-> Num(0, -1)]
       ELSE [balances |-> set(created, userId,
               [account EXCEPT
                  !.balance = numSub(@, credits),
                  !.totalUsed = numAdd(@, credits),
                  !.transactions = Append(@, [type |-> "use",
                                              amount |-> credits])]),
             returned |-> numSub(account.balance, credits)]

\* the cost of a purchase in 6-decimal units; the model buys at most
\* hundreds of credits, a larger or a negative number is never paid
payable(credits) == credits.big = 0 /\ credits.small > 0
costOf(credits) == credits.small * COST_PER_CREDIT

\* transferUsdc: the transfer is made when the wallet holds the amount; a
\* negative amount cannot be encoded as uint256 and ends in the catch
transferUsdc(balances, userId, credits) ==
  IF payable(credits) /\ balances[userId] >= costOf(credits)
    THEN [success |-> TRUE,
          usdc |-> [balances EXCEPT ![userId] = @ - costOf(credits)]]
    ELSE [success |-> FALSE, usdc |-> balances]

Users == {"u1"}
IdleStreamReq ==
  [pc |-> "done", action |-> "", userId |-> "", credits |-> Num(0, 0),
   before |-> NewAccount, after |-> NewAccount, success |-> FALSE,
   returned |-> Num(0, 0)]

\* the request slots are taken in order
NextStreamReq == Len(streamReqs) + 1

\* GET, or action 'balance': the account is read (and created)
StreamBalance(userId) ==
  /\ NextStreamReq \in StreamReqs
  /\ creditBalances' = getAccount(creditBalances, userId)
  /\ streamReqs' = Append(streamReqs,
       [IdleStreamReq EXCEPT
          !.action = "balance", !.userId = userId, !.success = TRUE,
          !.before = getAccount(creditBalances, userId)[userId]])
  /\ UNCHANGED <<variant, now, settlements, calls, ledger, clients, reqs,
                 purchaseHistory, served, probe, receiptProbe, engine,
                 policyProbe, spendingHistory, runs, usdc,
                 pendingApprovals, approveResult>>

\* action 'buy' up to `await getArcWalletInfo`
StreamBuyBegin(userId, raw) ==
  /\ NextStreamReq \in StreamReqs
  /\ streamReqs' = Append(streamReqs,
       [IdleStreamReq EXCEPT
          !.pc = "walletInfo", !.action = "buy", !.userId = userId,
          !.credits = parseIntOr(raw, 100),
          !.before = getAccount(creditBalances, userId)[userId]])
  /\ UNCHANGED <<variant, now, settlements, calls, ledger, clients, reqs,
                 purchaseHistory, served, probe, receiptProbe, engine,
                 policyProbe, spendingHistory, runs, creditBalances, usdc,
                 pendingApprovals, approveResult>>

\* getArcWalletInfo has answered: a balance below the cost ends the request
\* (a cost beyond the model's numbers is above every balance), otherwise
\* transferUsdc is called
StreamBuyCheck(q) ==
  LET req == streamReqs[q]
      insufficient ==
        \/ req.credits.big > 0
        \/ payable(req.credits) /\ usdc[req.userId] < costOf(req.credits)
  IN
  /\ q \in DOMAIN streamReqs
  /\ req.pc = "walletInfo"
  /\ streamReqs' = [streamReqs EXCEPT ![q].pc =
       IF insufficient THEN "done" ELSE "transfer"]
  /\ UNCHANGED <<variant, now, settlements, calls, ledger, clients, reqs,
                 purchaseHistory, served, probe, receiptProbe, engine,
                 policyProbe, spendingHistory, runs, creditBalances, usdc,
                 pendingApprovals, approveResult>>

\* getArcWalletInfo rejects: the handler throws
StreamBuyThrows(q) ==
  /\ q \in DOMAIN streamReqs
  /\ streamReqs[q].pc = "walletInfo"
  /\ streamReqs' = [streamReqs EXCEPT ![q].pc = "done"]
  /\ UNCHANGED <<variant, now, settlements, calls, ledger, clients, reqs,
                 purchaseHistory, served, probe, receiptProbe, engine,
                 policyProbe, spendingHistory, runs, creditBalances, usdc,
                 pendingApprovals, approveResult>>

\* transferUsdc has returned: after a transfer the credits are added;
\* chainOk is whether the chain carries the transfer out
StreamBuyTransfer(q, chainOk) ==
  LET req == streamReqs[q]
      result == IF chainOk THEN transferUsdc(usdc, req.userId, req.credits)
                ELSE [success |-> FALSE, usdc |-> usdc]
  IN
  /\ q \in DOMAIN streamReqs
  /\ req.pc = "transfer"
  /\ usdc' = result.usdc
  /\ creditBalances' =
       IF result.success
         THEN addCredits(creditBalances, req.userId, req.credits)
         ELSE creditBalances
  /\ streamReqs' = [streamReqs EXCEPT ![q].pc = "done",
                                      ![q].success = result.success]
  /\ UNCHANGED <<variant, now, settlements, calls, ledger, clients, reqs,
                 purchaseHistory, served, probe, receiptProbe, engine,
                 policyProbe, spendingHistory, runs, pendingApprovals,
                 approveResult>>

\* action 'use'
StreamUse(userId, raw) ==
  LET credits == parseIntOr(raw, 1)
      used == useCredits(creditBalances, userId, credits)
  IN
  /\ NextStreamReq \in StreamReqs
  /\ \A b \in {used.balances[userId].balance.big,
               used.balances[userId].totalUsed.big} : b \in -MaxBig..MaxBig
  /\ creditBalances' = used.balances
  /\ streamReqs' = Append(streamReqs,
       [IdleStreamReq EXCEPT
          !.action = "use", !.userId = userId, !.credits = credits,
          !.before = getAccount(creditBalances, userId)[userId],
          !.after = used.balances[userId], !.returned = used.returned,
          !.success = used.returned # Num(0, -1)])
  /\ UNCHANGED <<variant, now, settlements, calls, ledger, clients, reqs,
                 purchaseHistory, served, probe, receiptProbe, engine,
                 policyProbe, spendingHistory, runs, usdc,
                 pendingApprovals, approveResult>>

\* what the wallets hold when the requests of the model begin: the price of
\* three credits
InitStream ==
  /\ variant = 1
  /\ reqs = << >>
  /\ probe = IdleProbe
  /\ receiptProbe = IdleReceiptProbe
  /\ engine = PolicyEngine(DEFAULT_POLICY, 0)
  /\ policyProbe = IdlePolicyProbe
  /\ spendingHistory = << >>
  /\ runs = [r \in Runs |-> IdleRun]
  /\ now = 0
  /\ settlements = << >>
  /\ calls = [c \in Calls |-> IdleCall]
  /\ ledger = << >>
  /\ clients = [k \in Clients |-> IdleClient]
  /\ purchaseHistory = << >>
  /\ served = {}
  /\ pendingApprovals = << >>
  /\ approveResult = NoApproveResult
  /\ creditBalances = << >>
  /\ streamReqs = << >>
  /\ usdc = [u \in Users |-> 3 * COST_PER_CREDIT]

NextStream ==
  \/ \E userId \in Users : StreamBalance(userId)
  \/ \E userId \in Users, raw \in RawCredits : StreamBuyBegin(userId, raw)
  \/ \E q \in StreamReqs : StreamBuyCheck(q)
  \/ \E q \in StreamReqs : StreamBuyThrows(q)
  \/ \E q \in StreamReqs, chainOk \in BOOLEAN : StreamBuyTransfer(q, chainOk)
  \/ \E userId \in Users, raw \in RawCredits : StreamUse(userId, raw)

SpecStream == InitStream /\ [][NextStream]_vars

(***************************************************************************)
(* The treasury's approval requests: requestApproval from process,         *)
(* approveRequest from POST /api/treasury/approve/:approvalId and          *)
(* getPendingApprovals from GET /api/treasury and GET /api/status.  The    *)
(* clock is in days and does not go back.                                  *)
(***************************************************************************)
MaxApprovals == 2      \* approval requests made
MaxApprovalDays == 3   \* the clock runs from 0 to MaxApprovalDays

\* process reaches requestApproval for a task whose cost needs an approval
RequestApproval(amount, random) ==
  /\ Len(pendingApprovals) < MaxApprovals
  /\ pendingApprovals' = requestApproval(pendingApprovals, amount, now, random)
  /\ UNCHANGED <<variant, now, settlements, calls, ledger, clients, reqs,
                 purchaseHistory, served, probe, receiptProbe, engine,
                 policyProbe, spendingHistory, runs, creditBalances,
                 streamReqs, usdc, approveResult>>

\* the ids a caller of the approve route sends: those of the requests made,
\* and one that no request has
ApprovalIds ==
  {pendingApprovals[i].id : i \in DOMAIN pendingApprovals}
    \cup {ApprovalId(0, "unknown")}

\* POST /api/treasury/approve/:approvalId
ApproveRequest(approvalId) ==
  LET result == approveRequest(pendingApprovals, approvalId, now)
  IN
  /\ approveResult.calls < MaxApprovals + 1
  /\ pendingApprovals' = result.approvals
  /\ approveResult' = [calls |-> approveResult.calls + 1, id |-> approvalId,
                       at |-> now, returned |-> result.returned]
  /\ UNCHANGED <<variant, now, settlements, calls, ledger, clients, reqs,
                 purchaseHistory, served, probe, receiptProbe, engine,
                 policyProbe, spendingHistory, runs, creditBalances,
                 streamReqs, usdc>>

\* GET /api/treasury and GET /api/status
GetPendingApprovals ==
  /\ pendingApprovals' = getPendingApprovals(pendingApprovals, now)
  /\ pendingApprovals' # pendingApprovals
  /\ UNCHANGED <<variant, now, settlements, calls, ledger, clients, reqs,
                 purchaseHistory, served, probe, receiptProbe, engine,
                 policyProbe, spendingHistory, runs, creditBalances,
                 streamReqs, usdc, approveResult>>

\* a day passes
DayPasses ==
  /\ now < MaxApprovalDays
  /\ now' = now + oneDay
  /\ UNCHANGED <<variant, settlements, calls, ledger, clients, reqs,
                 purchaseHistory, served, probe, receiptProbe, engine,
                 policyProbe, spendingHistory, runs, creditBalances,
                 streamReqs, usdc, pendingApprovals, approveResult>>

\* the costs for which process asks for an approval: above $25
ApprovalAmounts == {2600}

NextTreasury ==
  \/ \E amount \in ApprovalAmounts, random \in Randoms :
       RequestApproval(amount, random)
  \/ \E approvalId \in ApprovalIds : ApproveRequest(approvalId)
  \/ GetPendingApprovals
  \/ DayPasses

SpecTreasury == InitAgent /\ [][NextTreasury]_vars

(***************************************************************************)
(* Claims about settlement                                                 *)
(***************************************************************************)
Done(c) == calls[c].pc = "done"
NonceOf(c) == calls[c].req.paymentDetails.nonce
FacilitatorTransfers(n) ==
  { i \in TransfersFor(n) : ledger[i].by = "facilitator" }
Invocations(c) == IF calls[c].invoked THEN 1 ELSE 0

\* C1: for every nonce, the facilitator submits at most one ledger transfer,
\* whatever the interleaving of the settle calls that carry it.
C1_AtMostOneTransferPerNonce ==
  \A n \in Nonces : Cardinality(FacilitatorTransfers(n)) <= 1

\* C2: two settle calls made one after the other with the same verified
\* payload return the same success flag and transaction id, and the
\* ledger-transfer primitive is invoked exactly once by the two together.
C2_SequentialSettleIdempotent ==
  \A c, d \in Calls :
    ( /\ c # d /\ Done(c) /\ Done(d)
      /\ c \in calls[d].after
      /\ calls[c].req = calls[d].req
      /\ calls[c].verification.valid /\ calls[d].verification.valid
      /\ \A e \in Calls \ {c, d} :
           calls[e].pc = "idle" \/ NonceOf(e) # NonceOf(c) )
    => /\ calls[c].result.success = calls[d].result.success
       /\ calls[c].result.txHash = calls[d].result.txHash
       /\ Invocations(c) + Invocations(d) = 1

\* C3 as stated: a settle request whose nonce has a record when the request
\* arrives returns exactly that record and executes no transfer.
C3_KnownNonceReturnsRecord ==
  \A c \in Calls :
    (Done(c) /\ calls[c].known)
    => /\ calls[c].result = calls[c].atStart
       /\ ~calls[c].invoked

\* C3 as amended: a settle request whose nonce has a record when the request
\* arrives executes no transfer; if it passes verification it returns the
\* record its lookup finds under the nonce, and if it fails verification it
\* returns a verification failure instead of the record.
C3_VerifiedKnownNonceReturnsRecord ==
  \A c \in Calls :
    (Done(c) /\ calls[c].known)
    => /\ ~calls[c].invoked /\ calls[c].tx = 0
       /\ calls[c].verification.valid
            => /\ calls[c].hit
               /\ calls[c].result = calls[c].existing
               /\ calls[c].existing.settlementType # "none"
       /\ ~calls[c].verification.valid
            => /\ ~calls[c].result.success
               /\ calls[c].result.txHash = NoHash
               /\ calls[c].result.error # ""

\* a later, verified call for a settled nonce has returned the cached success
C3_Witness ==
  \E c \in Calls :
    /\ Done(c) /\ calls[c].known /\ calls[c].verification.valid
    /\ calls[c].hit /\ calls[c].result.success
    /\ calls[c].result.txHash.kind = "ledger"

\* C4: a stored settlement record is never replaced or removed: once
\* settlements[n] is set it keeps its value in every later state.
C4_RecordsNeverReplaced ==
  [][\A n \in DOMAIN settlements :
       n \in DOMAIN settlements' /\ settlements'[n] = settlements[n]]_vars

\* C5: when the transfer of a verified claim fails, settle returns a failure
\* and the nonce has a record in the store afterwards.
C5_FailureIsCached ==
  \A c \in Calls :
    (Done(c) /\ calls[c].threw)
    => /\ ~calls[c].result.success
       /\ has(settlements, NonceOf(c))

(***************************************************************************)
(* Claims about the client                                                 *)
(***************************************************************************)
\* C6: for a signed payment handled by settlePayment, the facilitator and
\* the direct path together submit at most one ledger transfer.
C6_AtMostOneTransferPerPayment ==
  \A k \in Clients :
    clients[k].pc # "idle"
    => Cardinality(TransfersFor(clients[k].payment.paymentDetails.nonce)) <= 1

(***************************************************************************)
(* Claims about the products handler                                       *)
(***************************************************************************)
Purchases ==
  UNION { { purchaseHistory[u][i] : i \in 1..Len(purchaseHistory[u]) } :
          u \in DOMAIN purchaseHistory }
PurchaseCount(txHash) ==
  Cardinality({ <<u, i>> \in (DOMAIN purchaseHistory) \X (1..MaxReqs + 1) :
                  /\ i <= Len(purchaseHistory[u])
                  /\ purchaseHistory[u][i].txHash = txHash })
Mined(txHash) ==
  txHash \in 1..Len(ledger) /\ ledger[txHash].status = "success"

\* C7: a request has content generated, a receipt signed or a purchase
\* recorded only if, in that request, the ledger returned a receipt for the
\* supplied transaction id with status success; every recorded purchase
\* names a transaction that succeeded on the ledger.
C7_ContentOnlyAfterProof ==
  /\ \A r \in Reqs :
       ( \/ reqs[r].content # NoContent
         \/ reqs[r].delivered # NoContent
         \/ reqs[r].status = 200
         \/ reqs[r].pc \in {"getTx", "sign"} )
       => /\ reqs[r].receipt.found
          /\ reqs[r].receipt.status = 1
          /\ Mined(reqs[r].txHash)
  /\ \A purchase \in Purchases : Mined(purchase.txHash)

\* a request with a mined, successful payment has been served its content
C7_Witness ==
  \E r \in Reqs :
    /\ reqs[r].status = 200
    /\ reqs[r].delivered = generateContent(reqs[r].productId, reqs[r].txHash)
    /\ Mined(reqs[r].txHash)
    /\ PurchaseCount(reqs[r].txHash) >= 1

\* C9: a transaction id leads to at most one content release and at most one
\* recorded purchase.
C9_OneReleasePerTransaction ==
  \A txHash \in 1..MaxLedger :
    /\ Cardinality({ r \in Reqs : reqs[r].status = 200
                                   /\ reqs[r].txHash = txHash }) <= 1
    /\ PurchaseCount(txHash) <= 1

\* C10: a transaction id accepted for one product is not accepted for a
\* different product.
C10_ProofBoundToProduct ==
  \A r, q \in Reqs :
    ( /\ reqs[r].status = 200 /\ reqs[q].status = 200
      /\ reqs[r].txHash = reqs[q].txHash )
    => reqs[r].productId = reqs[q].productId

(***************************************************************************)
(* Claims about the /api/gated/* routes                                    *)
(***************************************************************************)
\* C8: a request to a gated route without a valid, unexpired payment is
\* answered 402 Payment Required and gets no content.
C8_GatedRoutesRequirePayment ==
  \A response \in served :
    response.payment # "valid"
    => response.status = 402 /\ response.content = ""

(***************************************************************************)
(* Claims about signing and verification                                   *)
(***************************************************************************)
Verified == probe.pc = "verified"
Untouched == probe.field = "none"
\* the signature was recovered: the two earlier checks passed
Recovered ==
  /\ probe.request.paymentDetails.networkId \in SUPPORTED_NETWORKS
  /\ probe.request.paymentDetails.expiry > probe.at

\* C11: the payload signPayment makes for a claim on a supported network whose
\* expiry has not passed verifies at LocalFacilitator.verify with
\* signerVerified = true, whatever the claim's asset
C11_SignatureRoundTrip ==
  (Verified /\ Untouched /\ probe.origin = "signPayment" /\ Recovered)
    => probe.outcome.signerVerified

\* the value the changed field had when the payload was signed
SignedValue(field) ==
  IF field = "signer" THEN Address(probe.request.signature.key)
  ELSE probe.details[field]
\* the changed field holds another value than the signed one; two spellings
\* of one address are the same value
AddressFields == {"asset", "recipient", "signer"}
ValueChanged ==
  /\ probe.field \notin {"none", "signature"}
  /\ IF probe.field \in AddressFields
       THEN toLowerCase(fieldOf(probe.request, probe.field))
              # toLowerCase(SignedValue(probe.field))
       ELSE fieldOf(probe.request, probe.field) # SignedValue(probe.field)

SignatureRecovered == \E i \in 1..Len(probe.checks) : probe.checks[i] = "signature"

\* C13: verify checks network, expiry, signature in that order and stops at
\* the first failure: an unsupported network gives valid = false and
\* networkMatch = false after the network check alone; an expired claim on a
\* supported network gives valid = false and notExpired = false; in neither
\* case is the signature recovered
C13_ChecksInOrder ==
  Verified =>
    /\ probe.request.paymentDetails.networkId \notin SUPPORTED_NETWORKS
         => /\ ~probe.outcome.valid /\ ~probe.outcome.networkMatch
            /\ probe.checks = <<"network">>
    /\ ( /\ probe.request.paymentDetails.networkId \in SUPPORTED_NETWORKS
         /\ probe.request.paymentDetails.expiry <= probe.at )
         => /\ ~probe.outcome.valid /\ ~probe.outcome.notExpired
            /\ probe.checks = <<"network", "expiry">>
    /\ ~Recovered => ~SignatureRecovered /\ ~probe.outcome.signerVerified

\* an expired claim with a good signature on the supported network
C13_Witness ==
  /\ Verified /\ Untouched /\ probe.origin = "payer"
  /\ probe.request.paymentDetails.asset = usdcAddress
  /\ probe.request.paymentDetails.networkId \in SUPPORTED_NETWORKS
  /\ probe.request.paymentDetails.expiry <= probe.at
  /\ probe.outcome.error = "Payment has expired"

\* C14 as stated: in every outcome of verify, notExpired holds exactly when
\* the current time is before the expiry
C14_NotExpiredIffBeforeExpiry ==
  Verified =>
    (probe.outcome.notExpired <=> probe.at < probe.request.paymentDetails.expiry)

\* C14: when verify reaches the expiry check (the network is supported), and
\* in the client's verifyPayment, notExpired holds exactly when the current
\* time is before the expiry: false at expiry = now, true at expiry = now + 1
C14_ExpiryBoundary ==
  /\ (Verified /\ probe.request.paymentDetails.networkId \in SUPPORTED_NETWORKS)
       => (probe.outcome.notExpired
             <=> probe.at < probe.request.paymentDetails.expiry)
  /\ probe.local # NoOutcome
       => (probe.local.notExpired
             <=> probe.localAt < probe.request.paymentDetails.expiry)

\* a claim verified at the very second of its expiry
C14_Witness ==
  /\ Verified
  /\ probe.request.paymentDetails.networkId \in SUPPORTED_NETWORKS
  /\ probe.request.paymentDetails.expiry = probe.at
  /\ ~probe.outcome.notExpired
  /\ probe.local # NoOutcome /\ probe.localAt = probe.at
  /\ ~probe.local.notExpired

\* C15: in every outcome of verify, valid is true exactly when signerVerified,
\* networkMatch and notExpired are all true
C15_ValidIsConjunction ==
  Verified =>
    (probe.outcome.valid <=>
       /\ probe.outcome.signerVerified
       /\ probe.outcome.networkMatch
       /\ probe.outcome.notExpired)

\* a payload with a wrong signer that is refused on the signature alone
C15_Witness ==
  /\ Verified /\ Recovered
  /\ probe.field = "signer"
  /\ probe.outcome.networkMatch /\ probe.outcome.notExpired
  /\ ~probe.outcome.signerVerified /\ ~probe.outcome.valid

(***************************************************************************)
(* Claims about settle: refused claims and settled nonces                  *)
(***************************************************************************)
\* the payload of call c cannot pass verification: its verdict says so, or
\* its network is unsupported, it had expired at the call, or its signature
\* is not the claimed signer's
Invalid(c) ==
  LET request == calls[c].req
  IN \/ ~calls[c].verification.valid
     \/ request.paymentDetails.networkId \notin SUPPORTED_NETWORKS
     \/ ~calls[c].verification.notExpired
     \/ ~verifySignature(request.signature, request.paymentDetails,
                         request.signer)

\* C16: a settle call whose verification is invalid returns a failure with an
\* error, starts no transfer, and leaves the settlement store and the ledger
\* as they were
C16_InvalidSettleHasNoEffect ==
  [][\A c \in Calls :
       (calls[c].pc = "verified" /\ Invalid(c) /\ calls'[c] # calls[c])
       => /\ calls'[c].pc = "done"
          /\ ~calls'[c].result.success
          /\ calls'[c].result.error # ""
          /\ calls'[c].result.txHash = NoHash
          /\ ~calls'[c].invoked /\ calls'[c].tx = 0
          /\ settlements' = settlements
          /\ ledger' = ledger]_vars

\* a payload signed by another key than the claimed signer's was refused and
\* its nonce has no record
C16_Witness ==
  \E c \in Calls :
    /\ Done(c)
    /\ calls[c].verification.networkMatch /\ calls[c].verification.notExpired
    /\ ~calls[c].verification.signerVerified
    /\ ~calls[c].result.success
    /\ ~has(settlements, NonceOf(c))

\* C17: a settle call that starts when its nonce has a record never starts a
\* transfer, whatever its claim and signature
C17_SettledIsTerminal ==
  \A c \in Calls :
    calls[c].known
    => /\ ~calls[c].invoked /\ calls[c].tx = 0
       /\ calls[c].pc \notin {"send", "wait"}
       /\ \A i \in 1..Len(ledger) :
            (ledger[i].by = "facilitator" /\ ledger[i].nonce = NonceOf(c))
            => \E d \in Calls \ {c} : calls[d].tx = i

\* a nonce settled by one call, then presented again with another claim
C17_Witness ==
  \E c, d \in Calls :
    /\ c # d /\ NonceOf(c) = NonceOf(d)
    /\ Done(d) /\ calls[d].result.success /\ calls[d].tx # 0
    /\ Done(c) /\ calls[c].known /\ calls[c].verification.valid
    /\ calls[c].req.paymentDetails # calls[d].req.paymentDetails

(***************************************************************************)
(* Claims about verify and the store                                       *)
(***************************************************************************)
\* C18: a verify call, at the facilitator's route or from the client's
\* verifyPayment, leaves the settlement store as it was and submits no
\* transfer
C18_VerifyHasNoSideEffect ==
  [][(probe' # probe /\ probe'.pc = "verified")
       => /\ settlements' = settlements
          /\ ledger' = ledger
          /\ calls' = calls]_vars

\* a valid claim was verified, by the route and by the client, for a nonce
\* that has a settlement record
C18_Witness ==
  /\ Verified /\ probe.outcome.valid
  /\ probe.local # NoOutcome
  /\ has(settlements, probe.request.paymentDetails.nonce)
  /\ settlements = SettledBefore.settlements
  /\ ledger = SettledBefore.ledger

(***************************************************************************)
(* Claims about refused payment proofs                                     *)
(***************************************************************************)
\* the handler of request r answers 402 with this error: no content is
\* generated or delivered, the handler is finished (signReceipt is not
\* reached) and the purchase history is as it was
Refused(r, error) ==
  /\ reqs'[r].pc = "done"
  /\ reqs'[r].status = 402
  /\ reqs'[r].error = error
  /\ reqs'[r].content = NoContent
  /\ reqs'[r].delivered = NoContent
  /\ purchaseHistory' = purchaseHistory

\* C19: when the ledger answers the receipt lookup of a request, a transaction
\* id it does not know (or has not mined) is refused as not found, to be
\* retried, and a failed transaction is refused as failed; in both cases no
\* content is generated, no receipt is signed and the purchase history does
\* not change
C19_UnprovenPaymentRefused ==
  [][\A r \in Reqs :
       (reqs[r].pc = "getReceipt" /\ reqs'[r] # reqs[r]
          /\ reqs'[r].status # 500)
       => /\ ( \/ reqs[r].txHash \notin 1..Len(ledger)
               \/ ledger[reqs[r].txHash].status = "pending" )
               => Refused(r, "Transaction not found")
          /\ ( /\ reqs[r].txHash \in 1..Len(ledger)
               /\ ledger[reqs[r].txHash].status = "failed" )
               => Refused(r, "Transaction failed")]_vars

\* one request was refused for an unknown transaction and one for the same
\* transaction after it failed
C19_Witness ==
  \E q, r \in Reqs :
    /\ reqs[q].pc = "done" /\ reqs[q].error = "Transaction not found"
    /\ reqs[r].pc = "done" /\ reqs[r].error = "Transaction failed"
    /\ reqs[r].txHash \in 1..Len(ledger)
    /\ ledger[reqs[r].txHash].status = "failed"
    /\ Purchases = {}

(***************************************************************************)
(* Claims about createPaymentDetails                                       *)
(***************************************************************************)
\* C20: every claim createPaymentDetails makes for a payment request it
\* accepts has, when it is made, an amount above zero and an expiry after the
\* current time
C20_CreatedClaimIsWellFormed ==
  (probe.pc = "created" /\ probe.origin = "createPaymentDetails")
    => /\ probe.details.amount > 0
       /\ probe.details.expiry > probe.at

(***************************************************************************)
(* Claims about the challenge and the answers to a retry                   *)
(***************************************************************************)
\* the requests answered with the 402 challenge
Challenged ==
  { r \in Reqs : reqs[r].pc = "done" /\ reqs[r].error = "Payment Required" }

\* C21: the challenge of every request without proof carries the product's
\* fixed price, a nonce different from the nonce of every other challenge,
\* and an expiry equal to the issue time plus the validity window
C21_ChallengeCarriesFreshClaim ==
  \A r \in Challenged :
    LET payment == reqs[r].body.payment
    IN /\ payment.amount = DIGITAL_PRODUCTS[reqs[r].productId]
       /\ "nonce" \in DOMAIN payment
       /\ "expiry" \in DOMAIN payment
       /\ \A q \in Challenged \ {r} :
            reqs[q].body.payment.nonce # payment.nonce
       /\ payment.expiry = now + 300

\* C22: every refusal of a retry that carries a transaction hash (not found,
\* failed) includes the payment parameters: amount, recipient and asset
C22_RefusalCarriesPaymentParameters ==
  \A r \in Reqs :
    ( /\ reqs[r].pc = "done"
      /\ reqs[r].error \in {"Transaction not found", "Transaction failed"} )
    => /\ "payment" \in DOMAIN reqs[r].body
       /\ {"amount", "recipient", "token"} \subseteq DOMAIN reqs[r].body.payment

\* C23: a retry for a product that carries a signed payment is handed to
\* LocalFacilitator.settle, and its content is released exactly when that
\* settle succeeds
C23_SignedRetryIsSettled ==
  \A r \in Reqs :
    ( /\ reqs[r].pc = "done"
      /\ reqs[r].signedPayment # NoRequest
      /\ reqs[r].productId \in DOMAIN DIGITAL_PRODUCTS )
    => \E c \in Calls :
         /\ calls[c].req = settleBody(reqs[r].signedPayment)
         /\ (reqs[r].delivered # NoContent) <=> calls[c].result.success

(***************************************************************************)
(* Claims about receipts                                                   *)
(***************************************************************************)
ReceiptVerified == receiptProbe.pc = "verified"
ReceiptAddressFields == {"buyer", "merchant"}
\* the changed field of the receipt holds another value than the signed one;
\* two spellings of one address are the same value
ReceiptValueChanged ==
  /\ receiptProbe.field # "none"
  /\ IF receiptProbe.field \in ReceiptAddressFields
       THEN toLowerCase(receiptProbe.shown[receiptProbe.field])
              # toLowerCase(receiptProbe.receipt[receiptProbe.field])
       ELSE receiptProbe.shown[receiptProbe.field]
              # receiptProbe.receipt[receiptProbe.field]

C25_ContentBinding ==
  ( /\ ReceiptVerified
    /\ receiptProbe.field = "none"
    /\ receiptProbe.shownContent # receiptProbe.content )
  => ~receiptProbe.matches

(***************************************************************************)
(* Claims about the verifier's failures                                    *)
(***************************************************************************)
\* C26: for a signature whose recovery raises, verify does not throw: the
\* route answers 200 with an outcome whose valid and signerVerified are
\* false
C26_VerifierNeverThrows ==
  (Verified /\ verifyTypedDataThrows(probe.request.signature))
    => /\ probe.status = 200
       /\ ~probe.outcome.valid
       /\ ~probe.outcome.signerVerified
       /\ probe.outcome = verify(probe.request, probe.at)

\* malformed signature bytes reached the recovery on a supported network
\* before the expiry
C26_Witness ==
  /\ Verified /\ Recovered
  /\ probe.field = "signature"
  /\ SignatureRecovered
  /\ probe.outcome.networkMatch /\ probe.outcome.notExpired
  /\ ~probe.outcome.valid

(***************************************************************************)
(* Claims about the policy engine                                          *)
(***************************************************************************)
\* C28: a cost that checkPolicy allows is within the single-payment maximum
\* and keeps the daily, weekly and monthly counters within their limits; so
\* the recorded daily spending never exceeds the daily limit
C28_SpendingWithinLimits ==
  /\ (policyProbe.pc \in {"checked", "recorded"} /\ policyProbe.result.allowed)
       => /\ policyProbe.cost <= engine.policy.spending.maxSinglePayment
          /\ policyProbe.spent.today + policyProbe.cost
               <= engine.policy.spending.dailyLimit
          /\ policyProbe.spent.thisWeek + policyProbe.cost
               <= engine.policy.spending.weeklyLimit
          /\ policyProbe.spent.thisMonth + policyProbe.cost
               <= engine.policy.spending.monthlyLimit
  /\ engine.spending.today <= engine.policy.spending.dailyLimit

\* spending was recorded up to the daily limit, and a further cost was
\* denied for the daily limit alone
C28_Witness ==
  /\ policyProbe.pc = "checked"
  /\ engine.spending.today = engine.policy.spending.dailyLimit
  /\ policyProbe.cost > 0
  /\ policyProbe.result.violations = {"daily_limit"}

(***************************************************************************)
(* Claims about the emergency stop                                         *)
(***************************************************************************)
\* the payments of a call that were made
Confirmed(payments) ==
  {i \in DOMAIN payments : payments[i].status = "confirmed"}

\* C27: while the emergency stop is active no process or shop call executes
\* an action or makes a payment
C27_EmergencyStopHalts ==
  [][engine.policy.emergencyStop
       => \A r \in Runs :
            /\ runs'[r].executed = runs[r].executed
            /\ Confirmed(runs'[r].payments) = Confirmed(runs[r].payments)]_vars

(***************************************************************************)
(* Claims about the funding account and the treasury's history             *)
(***************************************************************************)
\* C29: the account a transfer of settle debits is the signer that verify
\* checked on the claim
C29_DebitedAccountIsSigner ==
  \A c \in Calls :
    calls[c].tx # 0
      => toLowerCase(ledger[calls[c].tx].from)
           = toLowerCase(calls[c].req.signer)

\* C30: once every settle call has returned, the treasury's spending history
\* has one entry for each transfer that was submitted
C30_OneEntryPerTransfer ==
  (\A c \in Calls : calls[c].pc \in {"idle", "done"})
    => Len(spendingHistory) = Len(ledger)
(***************************************************************************)
(* Claims about the shopping agent's purchase                              *)
(***************************************************************************)
\* C31: a shop call reports a purchase, and its cost is recorded by the
\* policy engine, only if the order's payment was confirmed with a
\* transaction hash
C31_PurchaseOnlyIfConfirmed ==
  \A r \in Runs :
    runs[r].kind = "shop" /\ runs[r].outcome = "purchased"
      => /\ runs[r].order.paymentStatus = "confirmed"
         /\ runs[r].order.txHash # NoHash
(***************************************************************************)
(* Claims about the client's verification                                  *)
(***************************************************************************)
\* C32: for every signed payment the client's verifyPayment gives the same
\* valid verdict when the facilitator answers and when the client verifies
\* locally, and that verdict is the one of LocalFacilitator.verify
C32_VerdictsAgree ==
  probe.pc = "verified" /\ probe.local # NoOutcome
    => LET answered == verifyPayment(probe.request, probe.signerChain,
                                     probe.localAt, TRUE)
           fallback == verifyPayment(probe.request, probe.signerChain,
                                     probe.localAt, FALSE)
           facilitator == verify(probe.request, probe.localAt)
       IN /\ probe.local \in {answered, fallback}
          /\ answered.valid = fallback.valid
          /\ fallback.valid = facilitator.valid
(***************************************************************************)
(* Claims about the credit accounts                                        *)
(***************************************************************************)
\* the requests that have been answered
StreamDone == {q \in DOMAIN streamReqs : streamReqs[q].pc = "done"}

\* C34: in every state each account has balance = totalPurchased -
\* totalUsed and balance >= 0, and a useCredits call that returned -1 left
\* the account as it was
C34_AccountsConsistent ==
  /\ \A u \in DOMAIN creditBalances :
       LET account == creditBalances[u]
       IN /\ account.balance =
               Num(account.totalPurchased.big - account.totalUsed.big,
                   account.totalPurchased.small - account.totalUsed.small)
          /\ ~numNegative(account.balance)
  /\ \A q \in StreamDone :
       streamReqs[q].action = "use" /\ streamReqs[q].returned = Num(0, -1)
         => streamReqs[q].after = streamReqs[q].before

\* C35: the balance of a user rises only in the step in which a 'buy'
\* request of that user ends with a successful transfer; no 'use' request
\* leaves it higher than it was
C35_BalanceRisesOnlyByPurchase ==
  [][\A u \in Users :
       LET before == getAccount(creditBalances, u)[u].balance
           after == getAccount(creditBalances', u)[u].balance
       IN numLess(before, after)
            => \E q \in DOMAIN streamReqs :
                 /\ streamReqs[q].action = "buy"
                 /\ streamReqs[q].userId = u
                 /\ streamReqs[q].pc = "transfer"
                 /\ streamReqs'[q].pc = "done"
                 /\ streamReqs'[q].success]_vars
(***************************************************************************)
(* Claims about executePayment                                             *)
(***************************************************************************)
PaymentSteps == <<"create", "sign", "verify", "settle">>

\* the payment of client call k was verified and found invalid
VerifiedInvalid(k) ==
  /\ Len(clients[k].steps) >= 3
  /\ ~clients[k].valid

\* C33: executePayment runs create, sign, verify, settle in that order, and
\* a payment whose verification was invalid is never settled: the call ends
\* with status 'failed' and no txHash, no settle call is made for it and no
\* transfer of it is submitted, by the facilitator or directly
C33_InvalidNeverSettled ==
  \A k \in Clients :
    /\ clients[k].steps = SubSeq(PaymentSteps, 1, Len(clients[k].steps))
    /\ clients[k].pc \in {"post", "direct-send", "direct-wait"}
         => clients[k].steps = PaymentSteps /\ clients[k].valid
    /\ VerifiedInvalid(k)
         => /\ clients[k].pc = "done"
            /\ clients[k].status = "failed"
            /\ clients[k].txHash = NoHash
            /\ clients[k].steps = SubSeq(PaymentSteps, 1, 3)
            /\ \A c \in Calls : calls[c].client # k
            /\ TransfersFor(clients[k].payment.paymentDetails.nonce) = {}

C33_Witness ==
  \E k \in Clients :
    /\ VerifiedInvalid(k)
    /\ clients[k].pc = "done"
    /\ clients[k].status = "failed"
(***************************************************************************)
(* Claims about concurrent purchases                                       *)
(***************************************************************************)
\* C36: whatever the interleaving of concurrent shop calls, the daily
\* spending the policy engine has recorded never exceeds the daily limit
C36_DailyLimitUnderConcurrency ==
  engine.spending.today <= engine.policy.spending.dailyLimit
(***************************************************************************)
(* Claims about the treasury's approval requests                           *)
(***************************************************************************)
\* C37: an approval request goes from pending to approved or to expired and
\* stays there.  approveRequest returns true only for a request that is
\* pending and not past expiresAt, and that call approves it; a request past
\* expiresAt never becomes approved; an approved or expired request never
\* changes its status again
C37_ApprovalLifecycle ==
  [][/\ \A i \in DOMAIN pendingApprovals :
          /\ i \in DOMAIN pendingApprovals'
          /\ pendingApprovals'[i].status # pendingApprovals[i].status
               => /\ pendingApprovals[i].status = "pending"
                  /\ pendingApprovals'[i].status \in {"approved", "expired"}
          /\ now > pendingApprovals[i].expiresAt
               => pendingApprovals'[i].status
                    \in {pendingApprovals[i].status, "expired"}
     /\ \A i \in DOMAIN pendingApprovals' \ DOMAIN pendingApprovals :
          pendingApprovals'[i].status = "pending"
     /\ approveResult' # approveResult /\ approveResult'.returned
          => LET i == findApproval(pendingApprovals, approveResult'.id)
             IN /\ i # 0
                /\ pendingApprovals[i].status = "pending"
                /\ ~(now > pendingApprovals[i].expiresAt)
                /\ pendingApprovals'[i].status = "approved"]_vars

C37_Witness ==
  /\ \E i \in DOMAIN pendingApprovals : pendingApprovals[i].status = "approved"
  /\ \E i \in DOMAIN pendingApprovals :
       /\ pendingApprovals[i].status = "expired"
       /\ approveResult.id = pendingApprovals[i].id
       /\ ~approveResult.returned
       /\ approveResult.at > pendingApprovals[i].expiresAt
(***************************************************************************)
(* Claims about the resolution of settle                                   *)
(***************************************************************************)
\* settle call c has been entered and has not returned
InFlight(c) == calls[c].pc \notin {"idle", "done"}

\* settle call c has returned, and if it returned success getSettlement
\* gives its record for the nonce
Resolved(c) ==
  /\ Done(c)
  /\ calls[c].result.success
       => getSettlement(settlements, NonceOf(c)) = calls[c].result

\* C38: on a ledger that answers every send and every wait, every settle
\* call returns a result, and a call that returns success for a nonce is
\* followed by a state in which getSettlement of the nonce is that record
C38_SettleResolves ==
  \A c \in Calls : InFlight(c) ~> Resolved(c)

C38_Witness ==
  \E c, d \in Calls :
    /\ Resolved(c) /\ calls[c].result.success /\ calls[c].invoked
    /\ Resolved(d) /\ ~calls[d].result.success

====
